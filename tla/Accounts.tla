------------------------------ MODULE Accounts ------------------------------
(***************************************************************************)
(* The account behind one e-mail address: registering, confirming the      *)
(* address, closing and coming back, with the consents, the candidate      *)
(* profile, one application and the talent pool entries that hang on it.   *)
(*                                                                         *)
(* One request at a time; e-mails are tasks that run later.  The address   *)
(* may also belong to a staff member.                                      *)
(***************************************************************************)
EXTENDS Naturals, Sequences, FiniteSets, Rows

CONSTANTS
    Cedulas,      \* document numbers
    Taken,        \* those on the profiles of other candidates
    Sources,      \* source vacancies of talent pool entries, and NULL
    MaxDecisions, \* rows of the consent log per type
    MaxEntries,   \* active talent pool entries
    NULL

ASSUME AccountAssumption ==
    /\ Taken \subseteq Cedulas /\ NULL \notin Cedulas
    /\ NULL \in Sources
    /\ MaxDecisions \in Nat /\ MaxEntries \in Nat

VARIABLES
    account,   \* auth.users
    consents,  \* auth.consents, by type, in the order of insertion
    mails,     \* e-mail tasks not run yet
    links,     \* verification links that have not expired
    profile,   \* recruitment.candidates
    applied,   \* an application of the candidate
    pool,      \* active rows of talent.talent_pool, by source vacancy
    word,      \* history: what the user last said about marketing
    closed     \* history: closed by its owner and not come back, with a
               \* profile ("whole") or after staff had deleted it ("bare")

vars == <<account, consents, mails, links, profile, applied, pool, word, closed>>

Types == {"terms_privacy", "marketing"}

\* A refusal is a row accepted and revoked in the same instant.
ConsentState == {"open", "revoked", "refused"}
Consent == UNION {[1..n -> ConsentState] : n \in 0..MaxDecisions}

Account == [row : RowState, verified : BOOLEAN, portal : {"candidate", "staff"}]
Candidate == [row : RowState, cedula : Cedulas \cup {NULL}]
Mail == {"verification", "reactivation", "account_exists"}

\* `again` says that the link was sent to somebody who registered again after
\* closing (history).
Link == [again : BOOLEAN]

TypeOK ==
    /\ account \in Account
    /\ consents \in [Types -> Consent]
    /\ mails \subseteq Mail
    /\ links \subseteq Link
    /\ profile \in Candidate
    /\ applied \in RowState
    /\ pool \in [Sources -> 0..MaxEntries]
    /\ word \in {"nothing", "yes", "no"}
    /\ closed \in {"no", "bare", "whole"}

Init ==
    /\ account \in {[row |-> "absent", verified |-> FALSE, portal |-> "candidate"],
                    [row |-> "active", verified |-> TRUE, portal |-> "staff"]}
    /\ consents = [t \in Types |-> <<>>]
    /\ mails = {} /\ links = {}
    /\ profile = [row |-> "absent", cedula |-> NULL]
    /\ applied = "absent"
    /\ pool = [s \in Sources |-> 0]
    /\ word = "nothing" /\ closed = "no"

-----------------------------------------------------------------------------
(* The consent log *)

\* revoke: the active row, if there is one.
Revoke(log) == [i \in DOMAIN log |-> IF log[i] = "open" THEN "revoked" ELSE log[i]]

\* The partial unique index: one row per user and type with revoked_at NULL.
Insertable(log) == Cardinality({i \in DOMAIN log : log[i] = "open"}) <= 1

\* grant: revoke, then insert.
Grant(log) == Append(Revoke(log), "open")

\* record_refusal
Refuse(log) == Append(log, "refused")

HasEverDecided(t) == consents[t] # <<>>

IsCurrentlyActive(t) == \E i \in DOMAIN consents[t] : consents[t][i] = "open"

\* Both consent types are bounded for the model checker.
Logged(t, log) ==
    /\ Len(log) <= MaxDecisions
    /\ Insertable(log)
    /\ consents' = [consents EXCEPT ![t] = log]

-----------------------------------------------------------------------------
(* Signing up *)

\* verify: what Cloudflare answers to the token of a form.
Outcome(token, reply) ==
    CASE token = NULL -> "failed"
      [] reply = "error" -> "unavailable"
      [] OTHER -> reply

\* _check_turnstile
LetsThrough(outcome, failClosed) ==
    outcome = "success" \/ (outcome = "unavailable" /\ ~failClosed)

\* POST /register of an address nobody has.
RegisterNew(marketing) ==
    /\ account.row = "absent"
    /\ account' = [account EXCEPT !.row = "active"]
    /\ consents' = [consents EXCEPT !["terms_privacy"] = Grant(@),
                                    !["marketing"] = IF marketing THEN Grant(@) ELSE @]
    /\ mails' = mails \cup {"verification"}
    /\ word' = IF marketing THEN "yes" ELSE word
    /\ UNCHANGED <<links, profile, applied, pool, closed>>

\* A deactivated candidate.
Returning == account.row = "inactive" /\ account.portal = "candidate"

\* Of a deactivated candidate: new password, terms again; off until the link.
RegisterAgain ==
    /\ Returning
    /\ Logged("terms_privacy", Grant(consents["terms_privacy"]))
    /\ mails' = mails \cup {"reactivation"}
    /\ UNCHANGED <<account, links, profile, applied, pool, word, closed>>

\* get_unverified_user
Unverified == account.row = "active" /\ ~account.verified

\* Of a candidate who never confirmed: another link, nothing else.
RegisterPending ==
    /\ Unverified /\ account.portal = "candidate"
    /\ mails' = mails \cup {"verification"}
    /\ UNCHANGED <<account, consents, links, profile, applied, pool, word, closed>>

\* Of anybody else.
RegisterTaken ==
    /\ account.row # "absent" /\ ~Returning
    /\ account.verified \/ account.portal = "staff"
    /\ mails' = mails \cup {"account_exists"}
    /\ UNCHANGED <<account, consents, links, profile, applied, pool, word, closed>>

\* POST /register: the gate fails closed.
Register(token, reply, marketing) ==
    /\ LetsThrough(Outcome(token, reply), TRUE)
    /\ RegisterNew(marketing) \/ RegisterAgain \/ RegisterPending \/ RegisterTaken

\* POST /resend-verification
ResendVerification ==
    /\ Unverified
    /\ mails' = mails \cup {"verification"}
    /\ UNCHANGED <<account, consents, links, profile, applied, pool, word, closed>>

\* _send_verification_email, _send_reactivation_email, _send_account_exists_email:
\* the first two mint a link; any of them may fail to be delivered.
SendMail(mail, delivered) ==
    /\ mail \in mails
    /\ mails' = mails \ {mail}
    /\ links' = IF delivered /\ mail # "account_exists"
                THEN links \cup {[again |-> mail = "reactivation"]} ELSE links
    /\ UNCHANGED <<account, consents, profile, applied, pool, word, closed>>

LinkExpires(link) ==
    /\ links' = links \ {link}
    /\ UNCHANGED <<account, consents, mails, profile, applied, pool, word, closed>>

\* Mutant of Restored: the profile stays off.
MutRestoredNothing(p) == p

\* reactivate_by_user_id
Restored(p) == IF p.row = "inactive" THEN [p EXCEPT !.row = "active"] ELSE p

\* POST /verify: the first time, or coming back.  A link is not used up: it is
\* the verified address that refuses it.
Verify(link) ==
    /\ account.row = "inactive" \/ ~account.verified
    /\ account' = [account EXCEPT !.row = "active", !.verified = TRUE]
    /\ profile' = Restored(profile)
    /\ closed' = "no"
    /\ UNCHANGED <<consents, mails, links, applied, pool, word>>

-----------------------------------------------------------------------------
(* Closing *)

\* login, as far as these rows go: an active, verified account.
MayWork == account.row = "active" /\ account.verified

\* Mutant of Cleared: the marketing consent survives.
MutClearedKeepsConsents(log) == log

\* delete_me: the marketing consent is revoked, the terms are not.
Cleared(log) == Revoke(log)

\* deactivate_user, without its sessions (module Sessions).
Deactivated == [account EXCEPT !.row = "inactive"]

\* Mutant of CloseAccount: the applications are left alone.
MutCloseKeepsApplied ==
    /\ MayWork /\ account.portal = "candidate"
    /\ account' = Deactivated
    /\ profile' = IF profile.row = "active" THEN [profile EXCEPT !.row = "inactive"] ELSE profile
    /\ consents' = [consents EXCEPT !["marketing"] = Cleared(@)]
    /\ word' = IF word = "yes" THEN "no" ELSE word
    /\ closed' = IF profile.row = "active" THEN "whole" ELSE "bare"
    /\ UNCHANGED <<mails, links, applied, pool>>

\* DELETE /me
CloseAccount ==
    /\ MayWork /\ account.portal = "candidate"
    /\ account' = Deactivated
    /\ IF profile.row = "active"
       THEN /\ profile' = [profile EXCEPT !.row = "inactive"]
            /\ applied' = IF applied = "active" THEN "inactive" ELSE applied
       ELSE UNCHANGED <<profile, applied>>
    /\ consents' = [consents EXCEPT !["marketing"] = Cleared(@)]
    /\ word' = IF word = "yes" THEN "no" ELSE word
    /\ closed' = IF profile.row = "active" THEN "whole" ELSE "bare"
    /\ UNCHANGED <<mails, links, pool>>

\* PATCH /users/{id} by staff: the user's row and nothing else.
SetUserStatus(on) ==
    /\ account.row # "absent"
    /\ account' = [account EXCEPT !.row = IF on THEN "active" ELSE "inactive"]
    /\ closed' = IF on THEN "no" ELSE closed
    /\ UNCHANGED <<consents, mails, links, profile, applied, pool, word>>

\* PUT /me/consents/marketing
DecideMarketing(subscribed) ==
    /\ MayWork /\ account.portal = "candidate"
    /\ Logged("marketing",
              IF subscribed THEN Grant(consents["marketing"])
              ELSE IF IsCurrentlyActive("marketing") THEN Revoke(consents["marketing"])
              ELSE Refuse(consents["marketing"]))
    /\ word' = IF subscribed THEN "yes" ELSE "no"
    /\ UNCHANGED <<account, mails, links, profile, applied, pool, closed>>

-----------------------------------------------------------------------------
(* The profile *)

\* get_by_cedula sees every row, also closed ones.
CedulaFree(c) == c = NULL \/ (c \notin Taken /\ c # profile.cedula)

\* The candidate themselves, or staff entering somebody by hand.
Actor == {"self", "staff"}

\* require_owner: a candidate's token acts on its own rows.
Owner(actor) == actor = "self" => MayWork /\ account.portal = "candidate"

\* POST /candidates.  A row that is already there but not active passes the
\* check and fails on the unique column: no profile is made.
CreateProfile(actor, cedula) ==
    /\ Owner(actor)
    /\ actor = "self" => cedula # NULL
    /\ account.row = "active"
    /\ profile.row = "absent"
    /\ CedulaFree(cedula)
    /\ profile' = [row |-> "active", cedula |-> cedula]
    /\ UNCHANGED <<account, consents, mails, links, applied, pool, word, closed>>

\* PATCH /candidates/{id}
UpdateProfile(actor, cedula) ==
    /\ Owner(actor)
    /\ profile.row = "active"
    /\ cedula # profile.cedula => CedulaFree(cedula)
    /\ profile' = [profile EXCEPT !.cedula = cedula]
    /\ UNCHANGED <<account, consents, mails, links, applied, pool, word, closed>>

\* DELETE /candidates/{id}, by staff.
DeleteProfile ==
    /\ profile.row = "active"
    /\ profile' = [profile EXCEPT !.row = "inactive"]
    /\ UNCHANGED <<account, consents, mails, links, applied, pool, word, closed>>

\* POST and DELETE of applications, as far as the account is concerned.
Apply(actor) ==
    /\ Owner(actor)
    /\ profile.row = "active" /\ applied # "active"
    /\ applied' = "active"
    /\ UNCHANGED <<account, consents, mails, links, profile, pool, word, closed>>

Withdraw(actor) ==
    /\ Owner(actor)
    /\ applied = "active"
    /\ applied' = "inactive"
    /\ UNCHANGED <<account, consents, mails, links, profile, pool, word, closed>>

-----------------------------------------------------------------------------
(* The talent pool *)

\* Mutant of Listed: SQL's `= NULL`, which is never true.
MutListedByEquals(source) == IF source = NULL THEN 0 ELSE pool[source]

\* The active entries of a pair; NULL, the general pool, is a source like any.
Listed(source) == pool[source]

\* POST /talent-pool
AddToPool(source) ==
    /\ profile.row = "active"
    /\ Listed(source) = 0
    /\ pool[source] < MaxEntries
    /\ pool' = [pool EXCEPT ![source] = @ + 1]
    /\ UNCHANGED <<account, consents, mails, links, profile, applied, word, closed>>

\* DELETE /talent-pool/{id}
RemoveFromPool(source) ==
    /\ pool[source] > 0
    /\ pool' = [pool EXCEPT ![source] = @ - 1]
    /\ UNCHANGED <<account, consents, mails, links, profile, applied, word, closed>>

\* The list of active entries, of one source vacancy or of all: NULL asks for
\* all, so the general pool is never listed alone.  An entry is shown with its
\* profile, open or closed.
PoolListing(source) ==
    {entry \in Sources \X (1..MaxEntries) :
        /\ entry[2] <= pool[entry[1]]
        /\ profile.row # "absent"
        /\ source # NULL => entry[1] = source}

\* list_directory: whom a filtered directory shows.
InDirectory(onlyApplied, inPool, inactiveToo) ==
    /\ profile.row = "active" \/ (inactiveToo /\ profile.row = "inactive")
    /\ onlyApplied => applied = "active"
    /\ inPool # NULL => inPool = (\E s \in Sources : pool[s] > 0)

\* list_expanded and get_expanded: one user's profile, with its names.
InExpanded == profile.row = "active"

\* GET /candidates/expanded: by user, as every candidate asks, or filtered.
InCandidateList(byUser, onlyApplied, inPool) ==
    IF byUser THEN InExpanded ELSE InDirectory(onlyApplied, inPool, FALSE)

\* list_active_marketing_subscribers
Subscriber ==
    account.row = "active" /\ profile.row = "active" /\ IsCurrentlyActive("marketing")

-----------------------------------------------------------------------------

SignUp ==
    \/ \E token \in {NULL, "token"}, reply \in {"success", "failed", "error"},
          marketing \in BOOLEAN : Register(token, reply, marketing)
    \/ ResendVerification
    \/ \E link \in links : Verify(link)

MailTasks == \E mail \in mails, delivered \in BOOLEAN : SendMail(mail, delivered)

ProfileRequest ==
    \E actor \in Actor :
        \/ \E cedula \in Cedulas \cup {NULL} :
              CreateProfile(actor, cedula) \/ UpdateProfile(actor, cedula)
        \/ Apply(actor) \/ Withdraw(actor)

PoolRequest == \E source \in Sources : AddToPool(source) \/ RemoveFromPool(source)

Next ==
    \/ SignUp \/ MailTasks \/ CloseAccount \/ ProfileRequest \/ DeleteProfile
    \/ \E link \in links : LinkExpires(link)
    \/ \E on \in BOOLEAN : SetUserStatus(on) \/ DecideMarketing(on)
    \/ PoolRequest

Spec == Init /\ [][Next]_vars

-----------------------------------------------------------------------------
(* Properties *)

\* Marketing says what the user last said: subscribed after a yes, not after a
\* no, a refusal or closing the account, and undecided only while nothing was
\* said; and a candidate's account has its terms on record, however often it
\* was closed and opened again (consents_service.py; the portal asks whoever
\* has not decided).
ConsentIsTheLastWord ==
    /\ IsCurrentlyActive("marketing") <=> word = "yes"
    /\ HasEverDecided("marketing") <=> word # "nothing"
    /\ account.portal = "candidate" /\ account.row # "absent" => IsCurrentlyActive("terms_privacy")

\* An account its owner closed is gone, whatever staff and late tasks do
\* meanwhile: in no directory of candidates, in no mailing and, if the profile
\* was there to lead to them, without applications (auth_routes.py, delete_me).
ClosedIsGone ==
    /\ closed # "no" =>
          /\ ~Subscriber
          /\ \A byUser, onlyApplied \in BOOLEAN, inPool \in {TRUE, FALSE, NULL} :
                /\ ~InDirectory(onlyApplied, inPool, FALSE)
                /\ ~InCandidateList(byUser, onlyApplied, inPool)
    /\ closed = "whole" => applied # "active"

\* Whatever the talent pool is asked for, it lists a candidate once per source
\* vacancy, the general pool included (talent_pool_service.py, create and list).
ListedOnce ==
    \A source \in Sources : \A d, e \in PoolListing(source) : d[1] = e[1] => d = e

\* Coming back brings the profile back with the account, unless it is staff
\* who switch the account on (auth_routes.py, verify).
ComesBackWhole ==
    [][\A link \in links :
          Verify(link) /\ closed = "whole" => profile'.row = "active" /\ account'.verified]_vars
=============================================================================
