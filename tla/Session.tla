------------------------------ MODULE Session ------------------------------
(***************************************************************************)
(* The session of the web client in one browser: the access_token cookie   *)
(* that middleware.ts reads, the token in localStorage that lib/api.ts     *)
(* sends, the store that each tab keeps in memory (lib/authStore.ts), and  *)
(* the redirects of the middleware, the login page and the portal guards,  *)
(* which each go by a different one of these.  The token item and the      *)
(* persisted store are always written together and are one variable.       *)
(* Tokens are as the login page reads them, with a role and a tenant; the  *)
(* router's cache of pages is left out: every navigation is asked for.     *)
(***************************************************************************)
EXTENDS Naturals, FiniteSets

CONSTANTS Tabs,
          Tokens, NoToken,  \* each token is issued by one login
          NoCall,
          TokenKinds,            \* what tokens are issued for: see Role
          Visited,          \* paths a user opens or follows a link to
          MaxHops           \* where the count of redirects stops

ASSUME SessionAssumption ==
  /\ NoToken \notin Tokens /\ NoCall \notin Tokens \cup {NoToken}
  /\ MaxHops \in Nat

\* PORTAL_HOME, ROLE_REDIRECT, ROLE_HOME and the login page's own list.
Home(role) ==
  CASE role = "SUPER_ADMIN"     -> "/super-admin"
    [] role = "ADMIN"           -> "/admin"
    [] role = "THEATER_MANAGER" -> "/theatre"
    [] role = "SCANNER_DEVICE"  -> "/scanner"
    [] OTHER                    -> "/"

\* The other roles of the server (TENANT_ADMIN, STAFF) are in none of these lists.
Privileged == {"SUPER_ADMIN", "ADMIN", "THEATER_MANAGER", "SCANNER_DEVICE"}

\* The guards have no home for a role that is not in their list.
GuardHome(role) == IF role \in Privileged \cup {"USER"} THEN Home(role) ELSE "/login"

\* ROUTE_GUARDS, and the role each portal's layout asks for.
RouteGuard == [p \in {"/super-admin", "/admin", "/theatre", "/scanner"} |->
  CASE p = "/super-admin" -> "SUPER_ADMIN"
    [] p = "/admin"       -> "ADMIN"
    [] p = "/theatre"     -> "THEATER_MANAGER"
    [] p = "/scanner"     -> "SCANNER_DEVICE"]

Portals == DOMAIN RouteGuard

\* "/" stands for every page with no role, "/platform" for the pages that only
\* a layout guards, "/auth/login" for a page that does not exist.
Paths == Portals \cup {"/", "/login", "/platform", "/auth/login"}

ASSUME VisitedAssumption == Visited \subseteq Paths

\* An administrator's token may name no tenant.
Role(kind) == IF kind = "ADMIN_NO_TENANT" THEN "ADMIN" ELSE kind

VARIABLES cookie, saved,   \* access_token; localStorage
          tab,             \* Tabs -> what the tab shows and is doing
          kind, issued, expired,   \* Tokens -> TokenKinds; tokens given; tokens over
          out, kept        \* history: tokens logged out, and those of them that
                           \* another tab then held in memory

sessionVars == <<cookie, saved, tab, kind, issued, expired, out, kept>>

Session(t) == t \in Tokens
Valid(t) == Session(t) /\ t \notin expired

SessionTypeOK ==
  /\ {cookie, saved} \subseteq Tokens \cup {NoToken}
  /\ tab \in [Tabs -> [page : Paths \cup {"none"}, mem : Tokens \cup {NoToken},
                       pc : {"rest", "asked", "served"},
                       to : Paths, full : BOOLEAN, back : Paths,
                       hops : 0 .. MaxHops + 1,
                       call : Tokens \cup {NoToken, NoCall}, behind : BOOLEAN]]
  /\ kind \in [Tokens -> TokenKinds]
  /\ issued \subseteq Tokens /\ expired \subseteq issued
  /\ out \subseteq issued /\ kept \subseteq out
  /\ saved # NoToken => saved \in issued \ out

Closed == [page |-> "none", mem |-> NoToken, pc |-> "rest", to |-> "/",
           full |-> TRUE, back |-> "/", hops |-> 0, call |-> NoCall, behind |-> FALSE]

SessionInit ==
  /\ cookie = NoToken /\ saved = NoToken
  /\ tab = [i \in Tabs |-> Closed]
  /\ kind \in [Tokens -> TokenKinds]
  /\ issued = {} /\ expired = {} /\ out = {} /\ kept = {}

Set(i, new) == tab' = [tab EXCEPT ![i] = new]

\* The tab's document is left for another, and its memory with it.
Leaves(r) == [Closed EXCEPT !.hops = r.hops]

\* The tab asks for path p, as a new document or through the router; back is the
\* redirect parameter, "/" when absent.
Asks(r, p, full, back) ==
  [(IF full THEN Leaves(r) ELSE r) EXCEPT !.pc = "asked", !.to = p, !.full = full,
                                          !.back = back]

\* The session the tab goes by when the page is shown: a new document reads it
\* from localStorage.
Held(r) == IF r.full THEN saved ELSE r.mem

\* A redirect counts while the cookie, if it is good for anything, is the tab's
\* own session, and one with a place to go.  The count starts again when a
\* session begins or ends, and when another tab that loads writes the cookie.
OneSession(r) ==
  Valid(cookie) => cookie = Held(r) /\ kind[cookie] # "ADMIN_NO_TENANT"

Hop(r) == IF ~OneSession(r) THEN 0 ELSE IF r.hops > MaxHops THEN r.hops ELSE r.hops + 1

Redirect(r, p, full, back) == [Asks(r, p, full, back) EXCEPT !.hops = Hop(r)]
-----------------------------------------------------------------------------
(* Navigation and middleware.ts                                            *)

\* The user opens an address or follows a link.
Visit(i, p, full) ==
  /\ tab[i].pc = "rest" /\ (tab[i].page = "none" => full)
  /\ Set(i, [Asks(tab[i], p, full, "/") EXCEPT !.hops = 0])
  /\ UNCHANGED <<cookie, saved, kind, issued, expired, out, kept>>

\* Where the middleware sends a request for p with a valid token; p itself when
\* it lets the request through.
Routed(p, k) ==
  IF p = "/login" THEN Home(Role(k))
  ELSE IF p \notin Portals THEN p
  ELSE IF RouteGuard[p] # Role(k) THEN Home(Role(k))
  ELSE IF k = "ADMIN_NO_TENANT" THEN "/login"
  ELSE p

\* The request goes on to the page.
LetThrough(r) ==
  IF Valid(cookie) THEN Routed(r.to, kind[cookie]) = r.to ELSE r.to = "/login"

\* A document is on its way.
MiddlewarePasses(i) ==
  /\ tab[i].pc = "asked" /\ tab[i].full /\ LetThrough(tab[i])
  /\ Set(i, [tab[i] EXCEPT !.pc = "served"])
  /\ UNCHANGED <<cookie, saved, kind, issued, expired, out, kept>>

\* A valid token on a page of another role, or on the login page.
MiddlewareReroutes(i) ==
  LET r == tab[i]
  IN  /\ r.pc = "asked" /\ Valid(cookie)
      /\ Routed(r.to, kind[cookie]) # r.to
      /\ Set(i, Redirect(r, Routed(r.to, kind[cookie]), r.full, "/"))
      /\ UNCHANGED <<cookie, saved, kind, issued, expired, out, kept>>

\* No token, or one that is over: the cookie is deleted.  The page is kept for
\* after the login only where there was no token.
MiddlewareToLogin(i) ==
  LET r == tab[i]
  IN  /\ r.pc = "asked" /\ ~Valid(cookie) /\ r.to # "/login"
      /\ Set(i, Redirect(r, "/login", r.full, IF Session(cookie) THEN "/" ELSE r.to))
      /\ cookie' = NoToken
      /\ UNCHANGED <<saved, kind, issued, expired, out, kept>>
-----------------------------------------------------------------------------
(* The page is shown: it is loaded and its effects run                     *)

\* The privileged roles do not return to the page that asked for the login.
Destination(r, t) ==
  IF Role(kind[t]) \in Privileged THEN Home(Role(kind[t])) ELSE r.back

\* Where the guard of a portal (usePortalGuard) or of /platform sends a tab
\* that shows page p; p itself when it may stay.
Sent(p, t) ==
  IF p \in Portals
    THEN IF ~Session(t) THEN "/login"
         ELSE IF Role(kind[t]) # RouteGuard[p] THEN GuardHome(Role(kind[t])) ELSE p
    ELSE IF p = "/platform" /\ (Session(t) => Role(kind[t]) # "SUPER_ADMIN")
           THEN "/auth/login" ELSE p

Rests(r) == [r EXCEPT !.pc = "rest", !.hops = 0, !.to = "/", !.full = TRUE,
                      !.back = IF r.page = "/login" THEN r.back ELSE "/"]

\* Mutant of AfterEffects: the login page has its effect whenever it is rendered
AfterEffectsAlways(r, appears) ==
  IF r.page = "/login" /\ Session(r.mem)
    THEN Redirect(r, Destination(r, r.mem), FALSE, "/")
    ELSE IF Sent(r.page, r.mem) = r.page THEN Rests(r)
           ELSE Redirect(r, Sent(r.page, r.mem), FALSE, "/")

\* The tab after the effects of the page: the login page leaves when it finds a
\* session in memory, a guarded page when it finds none or another role's.
\* The login page has its effect when it appears only.
AfterEffects(r, appears) ==
  IF r.page = "/login"
    THEN IF appears /\ Session(r.mem)
           THEN Redirect(r, Destination(r, r.mem), FALSE, "/") ELSE Rests(r)
    ELSE IF Sent(r.page, r.mem) = r.page THEN Rests(r)
           ELSE Redirect(r, Sent(r.page, r.mem), FALSE, "/")

\* What the effects leave in the cookie: the login page writes it.
CookieAfterEffects(r, appears, before) ==
  IF r.page = "/login" /\ appears /\ Session(r.mem) THEN r.mem ELSE before

\* Tab i has loaded and left this in the cookie, which is every tab's.
Loaded(i, new, left) ==
  /\ cookie' = left
  /\ tab' = [j \in Tabs |->
               IF j = i THEN new
               ELSE IF left = cookie THEN tab[j] ELSE [tab[j] EXCEPT !.hops = 0]]

\* A new document: the store is read from localStorage and, when it holds a
\* token, the cookie is written (onRehydrateStorage).
LoadDocument(i) ==
  LET r == [tab[i] EXCEPT !.page = tab[i].to, !.mem = saved]
  IN  /\ r.pc = "served" /\ r.full
      /\ Loaded(i, AfterEffects(r, TRUE), IF Session(saved) THEN saved ELSE cookie)
      /\ UNCHANGED <<saved, kind, issued, expired, out, kept>>

\* The middleware lets the router's request through, and the page is replaced.
LoadRoute(i) ==
  LET r == [tab[i] EXCEPT !.page = tab[i].to]
      appears == tab[i].page # r.page
  IN  /\ r.pc = "asked" /\ ~r.full /\ LetThrough(r)
      /\ Loaded(i, AfterEffects(r, appears), CookieAfterEffects(r, appears, cookie))
      /\ UNCHANGED <<saved, kind, issued, expired, out, kept>>

\* Or the router finds the page shown already and renders nothing again.
LoadSame(i) ==
  LET r == tab[i]
  IN  /\ r.pc = "asked" /\ ~r.full /\ LetThrough(r)
      /\ r.page = r.to
      /\ Set(i, Rests(r))
      /\ UNCHANGED <<cookie, saved, kind, issued, expired, out, kept>>
-----------------------------------------------------------------------------
(* Login, logout and calls to the API                                      *)

\* The stores of the other tabs are not told of what this one does.
Behind(i, new) ==
  tab' = [j \in Tabs |->
            IF j = i THEN new
            ELSE [tab[j] EXCEPT !.behind = tab[j].page # "none", !.hops = 0]]

\* Mutant of Login: setAuth leaves the token item of an earlier session
LoginOverSaved(i, t) ==
  LET r == tab[i]
  IN  /\ r.pc = "rest" /\ r.page = "/login" /\ t \notin issued
      /\ issued' = issued \cup {t}
      /\ cookie' = t /\ saved' = IF Session(saved) THEN saved ELSE t
      /\ Behind(i, [Asks(r, Destination(r, t), FALSE, "/") EXCEPT
                      !.mem = t, !.hops = 0, !.behind = FALSE])
      /\ UNCHANGED <<kind, expired, out, kept>>

\* handleLoginPassword, handleVerifyOTP: setAuth, then the page after it.
Login(i, t) ==
  LET r == tab[i]
  IN  /\ r.pc = "rest" /\ r.page = "/login" /\ t \notin issued
      /\ issued' = issued \cup {t}
      /\ cookie' = t /\ saved' = t
      /\ Behind(i, [Asks(r, Destination(r, t), FALSE, "/") EXCEPT
                      !.mem = t, !.hops = 0, !.behind = FALSE])
      /\ UNCHANGED <<kind, expired, out, kept>>

\* Mutant of Cleared: only the cookie is dropped
ClearedCookie == cookie' = NoToken /\ UNCHANGED saved

\* authStore.logout
Cleared == cookie' = NoToken /\ saved' = NoToken

\* handleLogout of the portals ("/login") and of the user's menu ("/").
Logout(i, p) ==
  LET r == tab[i]
  IN  /\ r.pc = "rest" /\ Session(r.mem) /\ p \in {"/", "/login"}
      /\ Cleared
      /\ Behind(i, [Asks(r, p, FALSE, "/") EXCEPT !.mem = NoToken, !.hops = 0, !.behind = FALSE])
      /\ out' = out \cup {r.mem}
      /\ kept' = kept \cup {t \in out' : \E j \in Tabs \ {i} : tab[j].mem = t}
      /\ UNCHANGED <<kind, issued, expired>>

\* A page that shows a session calls the API; the request carries the token of
\* localStorage.
CallApi(i) ==
  LET r == tab[i]
  IN  /\ r.pc = "rest" /\ Session(r.mem) /\ r.call = NoCall
      /\ Set(i, [r EXCEPT !.call = saved])
      /\ UNCHANGED <<cookie, saved, kind, issued, expired, out, kept>>

AnswerOk(i) ==
  /\ Valid(tab[i].call)
  /\ Set(i, [tab[i] EXCEPT !.call = NoCall])
  /\ UNCHANGED <<cookie, saved, kind, issued, expired, out, kept>>

\* 401: whatever session is there by now is logged out, and the document is
\* replaced by the login page.  The same when a login is refused.
AnswerUnauthorized(i) ==
  LET r == tab[i]
  IN  /\ \/ r.call # NoCall /\ ~Valid(r.call)
         \/ r.pc = "rest" /\ r.page = "/login"
      /\ Cleared
      /\ Behind(i, [Asks(r, "/login", TRUE, "/") EXCEPT
                      !.mem = NoToken, !.hops = 0, !.call = NoCall, !.behind = FALSE])
      /\ UNCHANGED <<kind, issued, expired, out, kept>>
-----------------------------------------------------------------------------
(* The world                                                               *)

Expire(t) ==
  /\ t \in issued \ expired
  /\ expired' = expired \cup {t}
  /\ tab' = [i \in Tabs |-> [tab[i] EXCEPT !.hops = 0]]
  /\ UNCHANGED <<cookie, saved, kind, issued, out, kept>>

\* The browser is closed: the cookie has no lifetime of its own.
CloseBrowser ==
  /\ cookie' = NoToken
  /\ tab' = [i \in Tabs |-> Closed]
  /\ UNCHANGED <<saved, kind, issued, expired, out, kept>>

SessionNext ==
  \/ CloseBrowser
  \/ \E t \in Tokens : Expire(t)
  \/ \E i \in Tabs :
       \/ MiddlewarePasses(i) \/ MiddlewareReroutes(i) \/ MiddlewareToLogin(i)
       \/ LoadDocument(i) \/ LoadRoute(i) \/ LoadSame(i)
       \/ CallApi(i) \/ AnswerOk(i) \/ AnswerUnauthorized(i)
       \/ \E t \in Tokens : Login(i, t)
       \/ \E p \in {"/", "/login"} : Logout(i, p)
       \/ \E p \in Visited, full \in BOOLEAN : Visit(i, p, full)

SessionSpec == SessionInit /\ [][SessionNext]_sessionVars
-----------------------------------------------------------------------------
(* Properties                                                              *)

\* The middleware, the login page and the guards send a tab round only while
\* the cookie belongs to another session than the tab, or to an administrator
\* with no tenant (/admin and /login?error=no_tenant then send it to each
\* other), or other tabs that load keep writing the cookie: otherwise it rests
\* after a few redirects.
HopsEnd == \A i \in Tabs : tab[i].hops <= MaxHops

\* A session that was logged out in one tab comes back to the cookie only from
\* the memory of another tab, never from storage.
LoggedOutStaysOut == cookie \in out => cookie \in kept

\* The calls of a tab carry the session it shows, unless another tab has logged
\* in or out, or was answered 401, since this one was loaded.
CallsAreItsOwn ==
  \A i \in Tabs : tab[i].page # "none" /\ ~tab[i].behind => tab[i].mem = saved
=============================================================================
