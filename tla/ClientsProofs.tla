--------------------------- MODULE ClientsProofs ----------------------------
(***************************************************************************)
(* For any clients, contacts and listings: an active contact of a company  *)
(* of the catalogue keeps its company.                                     *)
(***************************************************************************)
EXTENDS Clients, TLAPS

ClientInv == TypeOK /\ LocalClientsKeepTheirContacts

ListingRow ==
    [pc: {"idle", "token", "login", "get", "upsert", "commit"}, answer: Answer, retried: BOOLEAN]

DependentRow == [row: RowState, company: Companies \cup {NULL}]

LEMMA ClientsStart == Init => ClientInv
<1> SUFFICES ASSUME Init PROVE ClientInv
  OBVIOUS
<1>1. Idle \in ListingRow
  BY DEF Idle, Nothing, ListingRow, Answer
<1>2. TypeOK
  BY <1>1, ClientsAssumption DEF Init, TypeOK, RowState, Answer, ListingRow
<1>3. LocalClientsKeepTheirContacts
  BY DEF Init, LocalClientsKeepTheirContacts, IsActive, Dependents
<1>. QED BY <1>2, <1>3 DEF ClientInv

\* A listing that moves on stays a listing.
LEMMA GoingKeeps ==
    ASSUME TypeOK, NEW r \in Slots,
           NEW pc \in {"idle", "token", "login", "get", "upsert", "commit"}, Goes(r, pc)
    PROVE  listings' \in [Slots -> ListingRow]
BY DEF TypeOK, Goes, ListingRow

\* A listing writes nothing but the mirrored clients, and TMR nothing at all.
LEMMA ListingsKeep ==
    ASSUME ClientInv, NEW r \in Slots, StartListing(r) \/ Listing(r) \/ ListingBreaks(r)
    PROVE  ClientInv'
<1>0. /\ listings \in [Slots -> ListingRow] /\ listings[r] \in ListingRow
      /\ Idle \in ListingRow /\ TypeOK
  BY DEF ClientInv, TypeOK, ListingRow, Idle, Nothing, Answer
<1>1. UNCHANGED <<dependents, vacancy, tmr, service, edits>>
  BY DEF StartListing, Listing, ListingBreaks, ValidToken, Login, GetClients, Upsert,
         CommitListing, catalogue, bounds, memory, Trouble
<1>2. /\ token' \in {"none", "fresh", "expiring"} /\ lastSync' \in {"never", "recent", "old"}
      /\ troubles' \in 0..MaxTroubles
  BY <1>0, ClientsAssumption
  DEF TypeOK, StartListing, Listing, ListingBreaks, ValidToken, Login, GetClients, Upsert,
      CommitListing, memory, bounds, Trouble
<1>3. listings' \in [Slots -> ListingRow]
  <2>1. ASSUME listings' = [listings EXCEPT ![r] = Idle]
        PROVE  listings' \in [Slots -> ListingRow]
    BY <1>0, <2>1
  <2>2. CASE StartListing(r)
    BY <1>0, <2>2, GoingKeeps DEF StartListing
  <2>3. CASE ValidToken(r)
    <3>1. Goes(r, "get") \/ Goes(r, "login")
      BY <2>3 DEF ValidToken
    <3>. QED BY <1>0, <3>1, GoingKeeps
  <2>4. CASE Login(r)
    BY <1>0, <2>1, <2>4, GoingKeeps DEF Login
  <2>5. CASE GetClients(r)
    <3>1. tmr \in Answer
      BY <1>0 DEF TypeOK
    <3>2. CASE listings' = [listings EXCEPT ![r].pc = "upsert", ![r].answer = tmr]
      BY <1>0, <3>1, <3>2 DEF ListingRow
    <3>3. CASE listings' = [listings EXCEPT ![r] = Refused(@)]
      <4>1. Refused(listings[r]) \in ListingRow
        BY <1>0 DEF Refused, ListingRow
      <4>. QED BY <1>0, <3>3, <4>1
    <3>. QED BY <2>1, <2>5, <3>2, <3>3 DEF GetClients
  <2>6. CASE Upsert(r)
    BY <1>0, <2>6, GoingKeeps DEF Upsert
  <2>7. CASE CommitListing(r) \/ ListingBreaks(r)
    BY <2>1, <2>7 DEF CommitListing, ListingBreaks
  <2>. QED BY <2>2, <2>3, <2>4, <2>5, <2>6, <2>7 DEF Listing
<1>4. /\ companies' \in [Companies -> RowState]
      /\ \A k \in Locals : companies'[k] = companies[k]
  <2>1. CASE UNCHANGED companies
    BY <1>0, <2>1 DEF TypeOK
  <2>2. CASE CommitListing(r)
    <3>. DEFINE answer == listings[r].answer
    <3>1. answer \in Answer /\ companies \in [Companies -> RowState]
      BY <1>0 DEF ListingRow, TypeOK
    <3>2. companies' = MirrorOf(answer)
      BY <2>2 DEF CommitListing
    <3>. HIDE DEF answer
    <3>. QED BY <3>1, <3>2, ClientsAssumption DEF MirrorOf, Answer, RowState, Companies
  <2>. QED BY <2>1, <2>2
       DEF StartListing, Listing, ListingBreaks, ValidToken, Login, GetClients, Upsert, catalogue
<1>5. TypeOK'
  BY <1>0, <1>1, <1>2, <1>3, <1>4 DEF TypeOK, ListingRow
<1>6. LocalClientsKeepTheirContacts'
  BY <1>1, <1>4
  DEF ClientInv, LocalClientsKeepTheirContacts, Active, IsActive
<1>. QED BY <1>5, <1>6 DEF ClientInv

\* Time, TMR and restarts leave the catalogue alone.
LEMMA SurroundingsKeep ==
    ASSUME ClientInv,
           \/ TokenAges \/ ThrottleEnds \/ Restart
           \/ \E m \in Mirrored, says \in {"unlisted", "active", "inactive"} : TmrChanges(m, says)
           \/ (\E how \in {"down", "refusing"} : TmrFails(how)) \/ TmrRecovers
    PROVE  ClientInv'
<1>1. UNCHANGED <<companies, dependents, vacancy>>
  BY DEF TokenAges, ThrottleEnds, Restart, TmrChanges, TmrFails, TmrRecovers, catalogue
<1>2. Idle \in ListingRow
  BY DEF ListingRow, Idle, Nothing, Answer
<1>3. /\ tmr' \in Answer /\ service' \in {"up", "down", "refusing"}
      /\ token' \in {"none", "fresh", "expiring"} /\ lastSync' \in {"never", "recent", "old"}
      /\ listings' \in [Slots -> ListingRow]
  BY <1>2
  DEF ClientInv, TypeOK, TokenAges, ThrottleEnds, Restart, TmrChanges, TmrFails, TmrRecovers,
      memory, Answer, ListingRow
<1>4. edits' \in 0..MaxEdits /\ troubles' \in 0..MaxTroubles
  BY ClientsAssumption
  DEF ClientInv, TypeOK, TokenAges, ThrottleEnds, Restart, TmrChanges, TmrFails, TmrRecovers,
      bounds, Edit, Trouble
<1>5. TypeOK'
  BY <1>1, <1>3, <1>4 DEF ClientInv, TypeOK, ListingRow
<1>6. LocalClientsKeepTheirContacts'
  BY <1>1 DEF ClientInv, LocalClientsKeepTheirContacts, Active, IsActive
<1>. QED BY <1>5, <1>6 DEF ClientInv

\* An edit leaves the memory of the server process alone.
LEMMA EditsLeave ==
    ASSUME TypeOK, Edit, UnchangedByEdit,
           companies' \in [Companies -> RowState], dependents' \in [Dependents -> DependentRow],
           vacancy' \in [row: {"absent", "live", "ended"}, company: Companies \cup {NULL},
                         contact: Contacts \cup {NULL}]
    PROVE  TypeOK'
<1>1. edits' \in 0..MaxEdits /\ UNCHANGED <<troubles, tmr, service, token, lastSync, listings>>
  BY ClientsAssumption DEF TypeOK, Edit, UnchangedByEdit, memory
<1>. QED BY <1>1 DEF TypeOK, DependentRow

\* A company with an active contact is not deleted.
LEMMA CompaniesKeep ==
    ASSUME ClientInv, CompanyRequest
    PROVE  ClientInv'
<1>1. PICK k \in Companies, row \in RowState :
         /\ companies' = [companies EXCEPT ![k] = row]
         /\ UNCHANGED <<dependents, vacancy>> /\ Edit /\ UnchangedByEdit
         /\ row = "active" \/ ~CompanyInUse(k)
  BY DEF CompanyRequest, CreateCompany, DeleteCompany, RowState, Companies
<1>2. companies \in [Companies -> RowState] /\ TypeOK
  BY DEF ClientInv, TypeOK
<1>3. TypeOK'
  <2>1. /\ companies' \in [Companies -> RowState] /\ dependents' \in [Dependents -> DependentRow]
        /\ vacancy' \in [row: {"absent", "live", "ended"}, company: Companies \cup {NULL},
                         contact: Contacts \cup {NULL}]
    BY <1>1, <1>2 DEF TypeOK, DependentRow
  <2>. QED BY <1>1, <1>2, <2>1, EditsLeave
<1>4. LocalClientsKeepTheirContacts'
  <2> SUFFICES ASSUME NEW c \in Contacts, IsActive(dependents[c]), dependents[c].company \in Locals
               PROVE  companies'[dependents[c].company] = "active"
    BY <1>1 DEF LocalClientsKeepTheirContacts, Active, IsActive
  <2>1. companies[dependents[c].company] = "active" /\ dependents[c].company \in Companies
    BY DEF ClientInv, LocalClientsKeepTheirContacts, Active, Companies
  <2>2. dependents[c].company = k => row = "active"
    BY <1>1 DEF CompanyInUse, Dependents
  <2>. QED BY <1>1, <1>2, <2>1, <2>2
<1>. QED BY <1>1, <1>3, <1>4 DEF ClientInv

\* A contact is created under, and moved to, an active company only.
LEMMA DependentsKeep ==
    ASSUME ClientInv, NEW d \in Dependents, NEW row,
           SetDependent(d, row), UNCHANGED <<companies, vacancy>>, Edit, UnchangedByEdit,
           row \in DependentRow,
           d \in Contacts /\ row.row = "active" => Active(row.company)
    PROVE  ClientInv'
<1>1. /\ dependents' = [dependents EXCEPT ![d] = row]
      /\ dependents \in [Dependents -> DependentRow] /\ TypeOK
  BY DEF SetDependent, ClientInv, TypeOK, DependentRow
<1>2. /\ dependents' \in [Dependents -> DependentRow]
      /\ dependents'[d] = row
      /\ \A e \in Dependents : e # d => dependents'[e] = dependents[e]
  BY <1>1
<1>3. TypeOK'
  BY <1>1, <1>2, EditsLeave DEF TypeOK
<1>4. LocalClientsKeepTheirContacts'
  <2> SUFFICES ASSUME NEW c \in Contacts, IsActive(dependents'[c])
               PROVE  dependents'[c].company \in Locals => Active(dependents'[c].company)
    BY DEF LocalClientsKeepTheirContacts, Active, IsActive
  <2>1. CASE c = d
    BY <1>2, <2>1 DEF IsActive
  <2>2. CASE c # d
    <3>1. c \in Dependents
      BY DEF Dependents
    <3>. QED BY <1>2, <2>2, <3>1 DEF ClientInv, LocalClientsKeepTheirContacts, Active, IsActive
  <2>. QED BY <2>1, <2>2
<1>. QED BY <1>3, <1>4 DEF ClientInv

LEMMA DependentRequestsKeep ==
    ASSUME ClientInv, ContactRequest \/ ProcessRequest
    PROVE  ClientInv'
<1>0. /\ Contacts \subseteq Dependents /\ Processes \subseteq Dependents
      /\ dependents \in [Dependents -> DependentRow]
  BY DEF Dependents, ClientInv, TypeOK, DependentRow
<1>1. ASSUME NEW d \in Dependents, NEW k \in Companies, CreateDependent(d, k)
      PROVE  ClientInv'
  <2>1. [row |-> "active", company |-> k] \in DependentRow
    BY DEF DependentRow, RowState
  <2>. QED BY <1>1, <2>1, DependentsKeep DEF CreateDependent
<1>2. ASSUME NEW d \in Dependents, NEW k \in Companies, MoveDependent(d, k)
      PROVE  ClientInv'
  <2>. DEFINE row == [dependents[d] EXCEPT !.company = k]
  <2>1. row \in DependentRow /\ row.company = k
    BY <1>0 DEF DependentRow
  <2>2. /\ SetDependent(d, row) /\ Active(k)
        /\ UNCHANGED <<companies, vacancy>> /\ Edit /\ UnchangedByEdit
    BY <1>2 DEF MoveDependent, MayMove
  <2>. HIDE DEF row
  <2>. QED BY <2>1, <2>2, DependentsKeep
<1>3. ASSUME NEW d \in Dependents, DeleteDependent(d)
      PROVE  ClientInv'
  <2>. DEFINE row == [dependents[d] EXCEPT !.row = "inactive"]
  <2>1. row \in DependentRow /\ row.row = "inactive"
    BY <1>0 DEF DependentRow, RowState
  <2>2. /\ SetDependent(d, row)
        /\ UNCHANGED <<companies, vacancy>> /\ Edit /\ UnchangedByEdit
    BY <1>3 DEF DeleteDependent
  <2>. HIDE DEF row
  <2>. QED BY <2>1, <2>2, DependentsKeep
<1>4. ASSUME NEW p \in Processes, RestoreProcess(p)
      PROVE  ClientInv'
  <2>. DEFINE row == [dependents[p] EXCEPT !.row = "active"]
  <2>1. row \in DependentRow
    BY <1>0 DEF DependentRow, RowState
  <2>2. /\ SetDependent(p, row)
        /\ UNCHANGED <<companies, vacancy>> /\ Edit /\ UnchangedByEdit
    BY <1>4 DEF RestoreProcess
  <2>3. p \in Dependents /\ p \notin Contacts
    BY <1>0, ClientsAssumption
  <2>. HIDE DEF row
  <2>. QED BY <2>1, <2>2, <2>3, DependentsKeep
<1>. QED BY <1>0, <1>1, <1>2, <1>3, <1>4 DEF ContactRequest, ProcessRequest, DependentRequest

LEMMA VacanciesKeep ==
    ASSUME ClientInv,
           \/ \E k \in Companies, c \in Contacts : OpenVacancy(k, c)
           \/ TurnVacancy
    PROVE  ClientInv'
<1>. DEFINE V == [row: {"absent", "live", "ended"}, company: Companies \cup {NULL},
                  contact: Contacts \cup {NULL}]
<1>1. UNCHANGED <<companies, dependents>> /\ Edit /\ UnchangedByEdit
  BY DEF OpenVacancy, TurnVacancy
<1>2. vacancy' \in V
  <2>1. CASE \E k \in Companies, c \in Contacts : OpenVacancy(k, c)
    BY <2>1 DEF OpenVacancy
  <2>2. CASE TurnVacancy
    <3>1. vacancy \in V
      BY <2>2 DEF TurnVacancy, ClientInv, TypeOK
    <3>2. \/ vacancy' = [vacancy EXCEPT !.row = "live"]
          \/ vacancy' = [vacancy EXCEPT !.row = "ended"]
      BY <2>2 DEF TurnVacancy
    <3>. QED BY <3>1, <3>2
  <2>. QED BY <2>1, <2>2
<1>3. TypeOK'
  BY <1>1, <1>2, EditsLeave DEF ClientInv, TypeOK, DependentRow
<1>. QED
  BY <1>1, <1>2, <1>3
  DEF ClientInv, LocalClientsKeepTheirContacts, Active, IsActive

THEOREM ClientInvariant == Spec => []ClientInv
<1>1. ClientInv /\ [Next]_vars => ClientInv'
  <2>1. ClientInv /\ Next => ClientInv'
    BY ListingsKeep, SurroundingsKeep, CompaniesKeep, DependentRequestsKeep, VacanciesKeep
    DEF Next
  <2>2. ClientInv /\ UNCHANGED vars => ClientInv'
    BY DEF ClientInv, TypeOK, LocalClientsKeepTheirContacts, Active, IsActive,
           vars, catalogue, memory, bounds
  <2>. QED BY <2>1, <2>2
<1>. QED BY <1>1, ClientsStart, PTL DEF Spec

\* Every state of the clients and of the listings is well typed.
THEOREM ClientsTypeCorrect == Spec => []TypeOK
BY ClientInvariant, PTL DEF ClientInv

\* Contacts of the catalogue's own companies keep them.
THEOREM ContactsKeepTheirCompany == Spec => []LocalClientsKeepTheirContacts
BY ClientInvariant, PTL DEF ClientInv
=============================================================================
