----------------------------- MODULE Onboarding -----------------------------
(***************************************************************************)
(* Theaters that join the platform                                         *)
(* (theater-onboarding/theater-onboarding.service.ts): an application, its *)
(* review by one of several super administrators, and the tenant and       *)
(* account an approval makes; beside them the tenants and accounts made    *)
(* otherwise.  A step is the code between two awaited calls; the           *)
(* transaction of an approval reads twice and then writes in one step,     *)
(* since nothing it writes is seen before it commits.                      *)
(***************************************************************************)
EXTENDS Naturals, FiniteSets

CONSTANTS Apps,       \* applications, each sent once
          NoApp,
          Emails, Slugs,
          Reviewers,  \* review requests, each sent once
          NoReviewer

ASSUME OnboardingAssumption == NoApp \notin Apps /\ NoReviewer \notin Reviewers

VARIABLES app,       \* TheaterApplication rows, and the request that makes each
          review,    \* reviewApplication requests
          tenants,   \* Tenant rows: the slug, and the review that made it, if any
          users,     \* User rows: the email, and the review
          crossed    \* history: applications two reviews of which overlapped

onboardVars == <<app, review, tenants, users, crossed>>

Rows == {a \in Apps : app[a].pc \in {"PENDING", "APPROVED", "REJECTED"}}

SlugTaken(s) == \E t \in tenants : t.slug = s
EmailTaken(e) == \E u \in users : u.email = e

\* Unique key (email, status): another row has it already.
Taken(a, status) ==
  \E b \in Rows \ {a} : app[b].email = app[a].email /\ app[b].pc = status

OnboardTypeOK ==
  /\ app \in [Apps -> [pc : {"unsent", "email", "pending", "create", "refused",
                             "PENDING", "APPROVED", "REJECTED"},
                       email : Emails, slug : Slugs]]
  /\ review \in [Reviewers -> [pc : {"idle", "slug", "email", "commit", "reject",
                                     "done", "threw"},
                               a : Apps \cup {NoApp}]]
  /\ tenants \subseteq [slug : Slugs, by : Reviewers \cup {NoReviewer}]
  /\ users \subseteq [email : Emails, by : Reviewers \cup {NoReviewer}]
  /\ crossed \subseteq Apps
  /\ \A a, b \in Rows : a # b => app[a].email # app[b].email \/ app[a].pc # app[b].pc

OnboardInit ==
  /\ app \in [Apps -> [pc : {"unsent"}, email : Emails, slug : Slugs]]
  /\ review = [r \in Reviewers |-> [pc |-> "idle", a |-> NoApp]]
  /\ tenants = {} /\ users = {} /\ crossed = {}
-----------------------------------------------------------------------------
(* apply                                                                   *)

Goes(a, from, to) == app[a].pc = from /\ app' = [app EXCEPT ![a].pc = to]

ApplicationStep(a, from, refused, to) ==
  /\ Goes(a, from, IF refused THEN "refused" ELSE to)
  /\ UNCHANGED <<review, tenants, users, crossed>>

ApplySlug(a) == ApplicationStep(a, "unsent", SlugTaken(app[a].slug), "email")

ApplyEmail(a) == ApplicationStep(a, "email", EmailTaken(app[a].email), "pending")

ApplyPending(a) == ApplicationStep(a, "pending", Taken(a, "PENDING"), "create")

\* The insert throws when a request beside this one was first.
ApplyCreate(a) == ApplicationStep(a, "create", Taken(a, "PENDING"), "PENDING")
-----------------------------------------------------------------------------
(* reviewApplication                                                       *)

Deciding(r) == review[r].pc \in {"slug", "email", "commit", "reject"}

BeginReview(r, a, first) ==
  /\ review[r].pc = "idle"
  /\ review' = [review EXCEPT ![r] = [pc |-> first, a |-> a]]
  /\ crossed' = IF \E q \in Reviewers \ {r} : review[q].a = a /\ Deciding(q)
                  THEN crossed \cup {a} ELSE crossed
  /\ UNCHANGED <<app, tenants, users>>

\* Mutant of ReviewRead: an application that was decided on may be reviewed again
ReviewReadAny(r, a, first) == a \in Rows /\ BeginReview(r, a, first)

\* The application is read and must be PENDING; the decision is in the request.
ReviewRead(r, a, first) == app[a].pc = "PENDING" /\ BeginReview(r, a, first)

GoesOn(r, pc) == review' = [review EXCEPT ![r].pc = pc]

\* slugCheck and emailCheck: what the transaction reads before it writes.
ReviewCheck(r, from, refused, to) ==
  /\ review[r].pc = from
  /\ GoesOn(r, IF refused THEN "threw" ELSE to)
  /\ UNCHANGED <<app, tenants, users, crossed>>

CheckSlug(r) == ReviewCheck(r, "slug", SlugTaken(app[review[r].a].slug), "email")

CheckEmail(r) == ReviewCheck(r, "email", EmailTaken(app[review[r].a].email), "commit")

\* Mutant of CannotApprove: slug and email are only read, their columns have no key
CannotApproveKeyless(a) == Taken(a, "APPROVED")

\* The unique keys that make the writes of an approval throw: a transaction that
\* inserts beside another waits for it and then fails.
CannotApprove(a) ==
  SlugTaken(app[a].slug) \/ EmailTaken(app[a].email) \/ Taken(a, "APPROVED")

\* Tenant, audit row, theater, account and application, or nothing; the
\* application is updated by id, whatever its status is by now.
Approve(r) ==
  LET a == review[r].a
  IN  /\ review[r].pc = "commit"
      /\ IF CannotApprove(a)
           THEN GoesOn(r, "threw") /\ UNCHANGED <<app, tenants, users>>
           ELSE /\ GoesOn(r, "done")
                /\ app' = [app EXCEPT ![a].pc = "APPROVED"]
                /\ tenants' = tenants \cup {[slug |-> app[a].slug, by |-> r]}
                /\ users' = users \cup {[email |-> app[a].email, by |-> r]}
      /\ UNCHANGED crossed

\* Application, by id, and audit row.  An email has one REJECTED application.
Reject(r) ==
  LET a == review[r].a
  IN  /\ review[r].pc = "reject"
      /\ IF Taken(a, "REJECTED")
           THEN GoesOn(r, "threw") /\ UNCHANGED app
           ELSE GoesOn(r, "done") /\ app' = [app EXCEPT ![a].pc = "REJECTED"]
      /\ UNCHANGED <<tenants, users, crossed>>
-----------------------------------------------------------------------------
\* TenantsService.create and AuthService.register: read, then insert under the
\* unique key, which decides.
CreateTenant(s) ==
  /\ ~SlugTaken(s) /\ tenants' = tenants \cup {[slug |-> s, by |-> NoReviewer]}
  /\ UNCHANGED <<app, review, users, crossed>>

RegisterUser(e) ==
  /\ ~EmailTaken(e) /\ users' = users \cup {[email |-> e, by |-> NoReviewer]}
  /\ UNCHANGED <<app, review, tenants, crossed>>

Applying(a) == ApplySlug(a) \/ ApplyEmail(a) \/ ApplyPending(a) \/ ApplyCreate(a)

OnboardNext ==
  \/ \E a \in Apps : Applying(a)
  \/ \E r \in Reviewers :
       \/ CheckSlug(r) \/ CheckEmail(r) \/ Approve(r) \/ Reject(r)
       \/ \E a \in Apps, first \in {"slug", "reject"} : ReviewRead(r, a, first)
  \/ \E s \in Slugs : CreateTenant(s)
  \/ \E e \in Emails : RegisterUser(e)

OnboardSpec == OnboardInit /\ [][OnboardNext]_onboardVars
-----------------------------------------------------------------------------
(* Properties                                                              *)

\* The tenants and accounts that reviews of application a made.
TenantsOf(a) == {t \in tenants : t.by \in Reviewers /\ review[t.by].a = a}
AccountsOf(a) == {u \in users : u.by \in Reviewers /\ review[u.by].a = a}

\* Two reviewers who approve at once, each of whom has found slug and email free,
\* never make two tenants or accounts of an application, nor of a slug or an
\* email: an APPROVED application has one of each, made by one and the same
\* review, and one that is not has both or none.
ApprovedIsMade ==
  /\ \A a \in Apps : \/ TenantsOf(a) = {} /\ AccountsOf(a) = {} /\ app[a].pc # "APPROVED"
                     \/ \E r \in Reviewers :
                          /\ TenantsOf(a) = {[slug |-> app[a].slug, by |-> r]}
                          /\ AccountsOf(a) = {[email |-> app[a].email, by |-> r]}
  /\ \A t, s \in tenants : t.slug = s.slug => t = s
  /\ \A u, v \in users : u.email = v.email => u = v

\* An application that made a tenant and is not APPROVED was read by a second
\* reviewer before the approval was stored: a rejection overwrites it.
MadeStaysApproved ==
  \A a \in Apps : TenantsOf(a) # {} => app[a].pc = "APPROVED" \/ a \in crossed
=============================================================================
