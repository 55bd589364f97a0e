------------------------------- MODULE Clients -------------------------------
(***************************************************************************)
(* Client companies, the people and processes that hang from them, and the *)
(* mirror of TMR, the external system the clients come from.               *)
(*                                                                         *)
(* Listing the clients refreshes the mirror first: log in if the cached    *)
(* token is missing or about to expire, fetch (on a 401 log in and fetch   *)
(* once more), upsert the answer, arm the throttle, and commit with the    *)
(* session at the end of the request.  Every await is a step, so listings  *)
(* of one server process interleave; token and throttle are in its memory, *)
(* the rows in the database.  An edit of the catalogue is one step.        *)
(*                                                                         *)
(* A row's company is a field of its own: a vacancy names a company and a  *)
(* contact, and nothing relates the two.                                   *)
(***************************************************************************)
EXTENDS Rows, Naturals

CONSTANTS Mirrored,    \* TMR's clients: rows with an external_id
          Locals,      \* companies created in the catalogue
          Contacts, Processes,
          Slots,       \* listings in flight at one time
          NULL,
          MaxEdits,    \* bound: edits of the catalogue and of TMR's clients
          MaxTroubles  \* bound: outages, refusals, broken sessions, restarts

ASSUME ClientsAssumption ==
    /\ Mirrored \cap Locals = {} /\ Contacts \cap Processes = {}
    /\ NULL \notin Mirrored \cup Locals \cup Contacts
    /\ MaxEdits \in Nat /\ MaxTroubles \in Nat

VARIABLES companies,   \* org.client_companies.is_active
          dependents,  \* contacts and processes: [row, company]
          vacancy,     \* [row, company, contact], a vacancy live or ended
          tmr,         \* what TMR would answer for each client
          service,     \* TMR: up, down, or refusing the tokens it gave
          token,       \* TmrApiClient._token with its expiry
          lastSync,    \* ClientSyncService._last_success_at
          listings,    \* Slots -> [pc, answer, retried]
          edits, troubles

catalogue == <<companies, dependents, vacancy>>
memory == <<token, lastSync>>
bounds == <<edits, troubles>>
vars == <<catalogue, tmr, service, memory, listings, bounds>>

Companies == Mirrored \cup Locals
Dependents == Contacts \cup Processes
Answer == [Mirrored -> {"unlisted", "active", "inactive"}]
Nothing == [m \in Mirrored |-> "unlisted"]
Idle == [pc |-> "idle", answer |-> Nothing, retried |-> FALSE]

TypeOK ==
    /\ companies \in [Companies -> RowState]
    /\ dependents \in [Dependents -> [row: RowState, company: Companies \cup {NULL}]]
    /\ vacancy \in [row: {"absent", "live", "ended"}, company: Companies \cup {NULL},
                    contact: Contacts \cup {NULL}]
    /\ tmr \in Answer /\ service \in {"up", "down", "refusing"}
    /\ token \in {"none", "fresh", "expiring"} /\ lastSync \in {"never", "recent", "old"}
    /\ listings \in [Slots -> [pc: {"idle", "token", "login", "get", "upsert", "commit"},
                               answer: Answer, retried: BOOLEAN]]
    /\ edits \in 0..MaxEdits /\ troubles \in 0..MaxTroubles

Init ==
    /\ companies = [k \in Companies |-> "absent"]
    /\ dependents = [d \in Dependents |-> [row |-> "absent", company |-> NULL]]
    /\ vacancy = [row |-> "absent", company |-> NULL, contact |-> NULL]
    /\ tmr = [m \in Mirrored |-> "active"] /\ service = "up"
    /\ token = "none" /\ lastSync = "never"
    /\ listings = [r \in Slots |-> Idle]
    /\ edits = 0 /\ troubles = 0
-----------------------------------------------------------------------------
Edit == edits < MaxEdits /\ edits' = edits + 1 /\ UNCHANGED troubles
Trouble == troubles < MaxTroubles /\ troubles' = troubles + 1 /\ UNCHANGED edits

Goes(r, pc) == listings' = [listings EXCEPT ![r].pc = pc]

\* Mutant of Throttled: one sync silences the service for good.
MutThrottledForever == lastSync # "never"

Throttled == lastSync = "recent"

\* A throttled listing reads the rows as they are and is no step here.
StartListing(r) ==
    /\ listings[r].pc = "idle" /\ ~Throttled
    /\ Goes(r, "token")
    /\ UNCHANGED <<catalogue, tmr, service, memory, bounds>>

ValidToken(r) ==
    /\ listings[r].pc = "token"
    /\ Goes(r, IF token = "fresh" THEN "get" ELSE "login")
    /\ UNCHANGED <<catalogue, tmr, service, memory, bounds>>

\* Every way a login can fail is one: the listing goes on with the old rows.
Login(r) ==
    /\ listings[r].pc = "login"
    /\ \/ service # "down" /\ token' = "fresh" /\ Goes(r, "get")
       \/ service = "down" /\ listings' = [listings EXCEPT ![r] = Idle] /\ UNCHANGED token
    /\ UNCHANGED <<catalogue, tmr, service, lastSync, bounds>>

Refused(listing) ==
    IF listing.retried THEN Idle ELSE [listing EXCEPT !.pc = "token", !.retried = TRUE]

GetClients(r) ==
    /\ listings[r].pc = "get"
    /\ \/ service = "up" /\ UNCHANGED token
          /\ listings' = [listings EXCEPT ![r].pc = "upsert", ![r].answer = tmr]
       \/ service = "refusing" /\ listings' = [listings EXCEPT ![r] = Refused(@)]
          /\ token' = IF listings[r].retried THEN token ELSE "none"
       \/ service = "down" /\ listings' = [listings EXCEPT ![r] = Idle] /\ UNCHANGED token
    /\ UNCHANGED <<catalogue, tmr, service, lastSync, bounds>>

Locks(r) ==
    listings[r].pc = "commit" /\ \E m \in Mirrored : listings[r].answer[m] # "unlisted"

\* INSERT ... ON CONFLICT waits for the rows; the throttle is armed before
\* the session commits.
Upsert(r) ==
    /\ listings[r].pc = "upsert"
    /\ listings[r].answer = Nothing \/ \A q \in Slots : ~Locks(q)
    /\ Goes(r, "commit") /\ lastSync' = "recent"
    /\ UNCHANGED <<catalogue, tmr, service, token, bounds>>

MirrorOf(answer) ==
    [k \in Companies |->
        IF k \in Mirrored /\ answer[k] # "unlisted" THEN answer[k] ELSE companies[k]]

CommitListing(r) ==
    /\ listings[r].pc = "commit"
    /\ companies' = MirrorOf(listings[r].answer)
    /\ listings' = [listings EXCEPT ![r] = Idle]
    /\ UNCHANGED <<dependents, vacancy, tmr, service, memory, bounds>>

\* Whatever fails after the upsert rolls it back and leaves the throttle.
ListingBreaks(r) ==
    /\ listings[r].pc = "commit" /\ Trouble
    /\ listings' = [listings EXCEPT ![r] = Idle]
    /\ UNCHANGED <<catalogue, tmr, service, memory>>

Listing(r) == ValidToken(r) \/ Login(r) \/ GetClients(r) \/ Upsert(r) \/ CommitListing(r)
-----------------------------------------------------------------------------
TokenAges ==
    /\ token = "fresh" /\ token' = "expiring"
    /\ UNCHANGED <<catalogue, tmr, service, lastSync, listings, bounds>>

ThrottleEnds ==
    /\ lastSync = "recent" /\ lastSync' = "old"
    /\ UNCHANGED <<catalogue, tmr, service, token, listings, bounds>>

Restart ==
    /\ Trouble /\ token' = "none" /\ lastSync' = "never"
    /\ listings' = [r \in Slots |-> Idle]
    /\ UNCHANGED <<catalogue, tmr, service>>

TmrChanges(m, says) ==
    /\ tmr[m] # says /\ Edit
    /\ tmr' = [tmr EXCEPT ![m] = says]
    /\ UNCHANGED <<catalogue, service, memory, listings>>

TmrFails(how) ==
    /\ service = "up" /\ Trouble /\ service' = how
    /\ UNCHANGED <<catalogue, tmr, memory, listings>>

TmrRecovers ==
    /\ service # "up" /\ service' = "up"
    /\ UNCHANGED <<catalogue, tmr, memory, listings, bounds>>
-----------------------------------------------------------------------------
Active(k) == companies[k] = "active"
UnchangedByEdit == UNCHANGED <<tmr, service, memory, listings>>
SetDependent(d, row) == dependents' = [dependents EXCEPT ![d] = row]

IsLive == vacancy.row = "live"

\* Mutant of CompanyInUse: vacancies and processes only.
MutCompanyInUseNoContacts(k) ==
    \/ IsLive /\ vacancy.company = k
    \/ \E d \in Processes : IsActive(dependents[d]) /\ dependents[d].company = k

CompanyInUse(k) ==
    \/ IsLive /\ vacancy.company = k
    \/ \E d \in Dependents : IsActive(dependents[d]) /\ dependents[d].company = k

CreateCompany(k) ==
    /\ companies[k] = "absent" /\ Edit
    /\ companies' = [companies EXCEPT ![k] = "active"]
    /\ UNCHANGED <<dependents, vacancy>> /\ UnchangedByEdit

DeleteCompany(k) ==
    /\ Active(k) /\ ~CompanyInUse(k) /\ Edit
    /\ k \in Mirrored => \A r \in Slots : ~Locks(r)
    /\ companies' = [companies EXCEPT ![k] = "inactive"]
    /\ UNCHANGED <<dependents, vacancy>> /\ UnchangedByEdit

\* A contact or a process of an active company.
CreateDependent(d, k) ==
    /\ dependents[d].row = "absent" /\ Active(k) /\ Edit
    /\ SetDependent(d, [row |-> "active", company |-> k])
    /\ UNCHANGED <<companies, vacancy>> /\ UnchangedByEdit

\* PATCH client_company_id: processes are read whatever their is_active.
MayMove(d, k) ==
    /\ dependents[d].row \in (IF d \in Contacts THEN {"active"} ELSE {"active", "inactive"})
    /\ Active(k)

MoveDependent(d, k) ==
    /\ MayMove(d, k) /\ dependents[d].company # k /\ Edit
    /\ SetDependent(d, [dependents[d] EXCEPT !.company = k])
    /\ UNCHANGED <<companies, vacancy>> /\ UnchangedByEdit

ContactInUse(c) == IsLive /\ vacancy.contact = c

DeleteDependent(d) ==
    /\ IsActive(dependents[d]) /\ Edit
    /\ d \in Contacts => ~ContactInUse(d)
    /\ SetDependent(d, [dependents[d] EXCEPT !.row = "inactive"])
    /\ UNCHANGED <<companies, vacancy>> /\ UnchangedByEdit

\* PATCH is_active = true on a process checks no reference.
RestoreProcess(p) ==
    /\ dependents[p].row = "inactive" /\ Edit
    /\ SetDependent(p, [dependents[p] EXCEPT !.row = "active"])
    /\ UNCHANGED <<companies, vacancy>> /\ UnchangedByEdit

OpenVacancy(k, c) ==
    /\ vacancy.row = "absent" /\ Active(k) /\ IsActive(dependents[c]) /\ Edit
    /\ vacancy' = [row |-> "live", company |-> k, contact |-> c]
    /\ UNCHANGED <<companies, dependents>> /\ UnchangedByEdit

\* PATCH status_id, to a terminal status or back: it checks the fields it has.
TurnVacancy ==
    /\ vacancy.row # "absent" /\ Edit
    /\ vacancy' = [vacancy EXCEPT !.row = IF IsLive THEN "ended" ELSE "live"]
    /\ UNCHANGED <<companies, dependents>> /\ UnchangedByEdit
-----------------------------------------------------------------------------
CompanyRequest ==
    \/ \E k \in Locals : CreateCompany(k)
    \/ \E k \in Companies : DeleteCompany(k)

DependentRequest(d) ==
    \/ \E k \in Companies : CreateDependent(d, k) \/ MoveDependent(d, k)
    \/ DeleteDependent(d)

ContactRequest == \E c \in Contacts : DependentRequest(c)
ProcessRequest == \E p \in Processes : DependentRequest(p) \/ RestoreProcess(p)

Next ==
    \/ \E r \in Slots : StartListing(r) \/ Listing(r) \/ ListingBreaks(r)
    \/ TokenAges \/ ThrottleEnds \/ Restart
    \/ \E m \in Mirrored, says \in {"unlisted", "active", "inactive"} : TmrChanges(m, says)
    \/ (\E how \in {"down", "refusing"} : TmrFails(how)) \/ TmrRecovers
    \/ CompanyRequest \/ ContactRequest \/ ProcessRequest
    \/ \E k \in Companies, c \in Contacts : OpenVacancy(k, c)
    \/ TurnVacancy

Spec == Init /\ [][Next]_vars

\* The event loop runs every listing, PostgreSQL queues who waits for a row
\* lock, the 60 seconds pass, and the clients are listed again and again.
FairSpec ==
    /\ Spec /\ WF_vars(ThrottleEnds)
    /\ \A r \in Slots :
        WF_vars(Listing(r)) /\ SF_vars(Upsert(r)) /\ WF_vars(StartListing(r))
-----------------------------------------------------------------------------
\* An active contact belongs to an active company, as long as the company is
\* the catalogue's own: creating, moving and deleting contacts and companies in
\* any order keeps it (contacts_service, client_companies_service).  For a
\* client of TMR a sync may break it.
LocalClientsKeepTheirContacts ==
    \A c \in Contacts : IsActive(dependents[c]) /\ dependents[c].company \in Locals
                            => Active(dependents[c].company)

\* If TMR comes back for good the mirror says what TMR says again and again,
\* after outages, lost sessions, restarts, a throttle armed by a sync that was
\* rolled back, and answers of two listings written in the other order.
MirrorCatchesUp ==
    <>[](service = "up") =>
        []<>(\A m \in Mirrored : tmr[m] # "unlisted" => companies[m] = tmr[m])
=============================================================================
