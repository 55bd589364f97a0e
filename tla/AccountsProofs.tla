--------------------------- MODULE AccountsProofs ---------------------------
(***************************************************************************)
(* For any documents, sources and histories: the consent log says what the *)
(* user last said, a closed account is gone, it comes back whole, and      *)
(* nobody is in the talent pool twice for one vacancy.                     *)
(*                                                                         *)
(* For any number of tokens and any lifetimes: ending the sessions of a    *)
(* user lasts, a sign-in has one refresh token, a reset link works once,   *)
(* and a window takes few wrong passwords.                                 *)
(***************************************************************************)
EXTENDS Accounts, Sessions, SequenceTheorems, TLAPS

-----------------------------------------------------------------------------
(* Accounts and candidate profiles                                         *)

HasOpen(log) == \E i \in DOMAIN log : log[i] = "open"

\* What the three ways to write the log do to it.
LEMMA GrantOpens ==
    ASSUME NEW log \in Seq(ConsentState)
    PROVE  Grant(log) \in Seq(ConsentState) /\ Grant(log) # <<>> /\ HasOpen(Grant(log))
<1>1. Revoke(log) \in Seq(ConsentState) /\ "open" \in ConsentState
  BY DEF Revoke, ConsentState
<1>2. Grant(log) = Append(Revoke(log), "open")
  BY DEF Grant
<1>. HIDE DEF ConsentState
<1>3. /\ Grant(log) \in Seq(ConsentState)
      /\ Len(Grant(log)) = Len(Revoke(log)) + 1
      /\ Grant(log)[Len(Revoke(log)) + 1] = "open"
  BY <1>1, <1>2
<1>4. Len(Revoke(log)) + 1 \in DOMAIN Grant(log)
  BY <1>1, <1>3
<1>5. HasOpen(Grant(log))
  BY <1>3, <1>4 DEF HasOpen
<1>. QED BY <1>1, <1>3, <1>5

LEMMA RevokeCloses ==
    ASSUME NEW log \in Seq(ConsentState)
    PROVE  /\ Revoke(log) \in Seq(ConsentState) /\ ~HasOpen(Revoke(log))
           /\ Revoke(log) = <<>> <=> log = <<>>
<1>1. Revoke(log) \in Seq(ConsentState) /\ Len(Revoke(log)) = Len(log)
  BY DEF Revoke, ConsentState
<1>2. ~HasOpen(Revoke(log))
  BY DEF Revoke, HasOpen
<1>. QED BY <1>1, <1>2

LEMMA RefuseAdds ==
    ASSUME NEW log \in Seq(ConsentState)
    PROVE  /\ Refuse(log) \in Seq(ConsentState) /\ Refuse(log) # <<>>
           /\ HasOpen(Refuse(log)) => HasOpen(log)
BY DEF Refuse, HasOpen, ConsentState

AccountTypes ==
    /\ account \in Account
    /\ consents \in [Types -> Seq(ConsentState)]
    /\ profile \in Candidate
    /\ pool \in [Sources -> Nat]

\* Nothing is sent to an address nobody has registered.
NothingBefore == account.row = "absent" => mails = {} /\ links = {}

\* What closing leaves behind, until the account comes back.
ClosedLeaves ==
    /\ closed # "no" => account.row = "inactive" /\ profile.row # "active"
    /\ closed = "whole" => profile.row = "inactive" /\ applied # "active"

\* One active entry per source vacancy at most.
OneEntry == \A s \in Sources : pool[s] <= 1

AccountInv ==
    /\ AccountTypes /\ NothingBefore /\ ClosedLeaves
    /\ ConsentIsTheLastWord /\ OneEntry

LEMMA AccountStarts == Init => AccountInv
<1> SUFFICES ASSUME Init PROVE AccountInv
  OBVIOUS
<1>1. consents = [t \in Types |-> <<>>] /\ <<>> \in Seq(ConsentState)
  BY DEF Init
<1>2. \A t \in Types : consents[t] = <<>> /\ ~IsCurrentlyActive(t)
  BY <1>1 DEF IsCurrentlyActive
<1>3. AccountTypes
  <2>1. account \in Account
    <3>1. CASE account = [row |-> "absent", verified |-> FALSE, portal |-> "candidate"]
      BY <3>1 DEF Account, RowState
    <3>2. CASE account = [row |-> "active", verified |-> TRUE, portal |-> "staff"]
      BY <3>2 DEF Account, RowState
    <3>. QED BY <3>1, <3>2 DEF Init
  <2>2. profile \in Candidate
    BY DEF Init, Candidate, RowState
  <2>3. pool \in [Sources -> Nat]
    BY DEF Init
  <2>4. consents \in [Types -> Seq(ConsentState)]
    BY <1>1
  <2>. QED BY <2>1, <2>2, <2>3, <2>4 DEF AccountTypes
<1>4. ConsentIsTheLastWord
  BY <1>2 DEF Init, ConsentIsTheLastWord, HasEverDecided, Types
<1>5. NothingBefore /\ ClosedLeaves /\ OneEntry
  BY DEF Init, NothingBefore, ClosedLeaves, OneEntry
<1>. QED BY <1>3, <1>4, <1>5 DEF AccountInv

\* The log after a step that writes at most the log of one type, or both.
LEMMA ConsentsKeep ==
    ASSUME AccountInv,
           consents' \in [Types -> Seq(ConsentState)],
           account'.portal = account.portal,
           HasOpen(consents'["marketing"]) <=> word' = "yes",
           consents'["marketing"] # <<>> <=> word' # "nothing",
           account'.portal = "candidate" /\ account'.row # "absent"
              => HasOpen(consents'["terms_privacy"])
    PROVE  ConsentIsTheLastWord'
BY DEF ConsentIsTheLastWord, IsCurrentlyActive, HasEverDecided, HasOpen

\* What the invariant says of the log before the step.
LEMMA ConsentsBefore ==
    ASSUME AccountInv
    PROVE  /\ consents \in [Types -> Seq(ConsentState)]
           /\ HasOpen(consents["marketing"]) <=> word = "yes"
           /\ consents["marketing"] # <<>> <=> word # "nothing"
           /\ account.portal = "candidate" /\ account.row # "absent"
                => HasOpen(consents["terms_privacy"])
BY DEF AccountInv, AccountTypes, ConsentIsTheLastWord, IsCurrentlyActive, HasEverDecided, HasOpen

LEMMA RegistrationsKeep ==
    ASSUME AccountInv,
           NEW marketing \in BOOLEAN,
           RegisterNew(marketing) \/ RegisterAgain \/ RegisterPending \/ RegisterTaken
    PROVE  AccountInv'
<1>0. /\ account \in Account /\ consents \in [Types -> Seq(ConsentState)]
      /\ "terms_privacy" \in Types /\ "marketing" \in Types
  BY DEF AccountInv, AccountTypes, Types
<1>1. UNCHANGED <<links, profile, applied, pool, closed>>
  BY DEF RegisterNew, RegisterAgain, RegisterPending, RegisterTaken
<1>2. CASE RegisterNew(marketing)
  <2>. DEFINE terms == Grant(consents["terms_privacy"])
              offers == IF marketing THEN Grant(consents["marketing"]) ELSE consents["marketing"]
  <2>1. /\ account.row = "absent" /\ account' = [account EXCEPT !.row = "active"]
        /\ consents' = [consents EXCEPT !["terms_privacy"] = terms, !["marketing"] = offers]
        /\ word' = IF marketing THEN "yes" ELSE word
    BY <1>2 DEF RegisterNew
  <2>2. /\ account' \in Account /\ account'.row = "active" /\ account'.portal = account.portal
    BY <1>0, <2>1 DEF Account, RowState
  <2>3. /\ terms \in Seq(ConsentState) /\ HasOpen(terms)
        /\ offers \in Seq(ConsentState)
        /\ HasOpen(offers) <=> word' = "yes"
        /\ offers # <<>> <=> word' # "nothing"
    BY <1>0, <2>1, GrantOpens, ConsentsBefore
  <2>. HIDE DEF terms, offers
  <2>4. /\ consents' \in [Types -> Seq(ConsentState)]
        /\ consents'["terms_privacy"] = terms /\ consents'["marketing"] = offers
    BY <1>0, <2>1, <2>3
  <2>5. ConsentIsTheLastWord'
    BY <2>2, <2>3, <2>4, ConsentsKeep
  <2>6. closed = "no"
    BY <2>1 DEF AccountInv, ClosedLeaves
  <2>. QED
    BY <1>1, <2>2, <2>4, <2>5, <2>6
    DEF AccountInv, AccountTypes, NothingBefore, ClosedLeaves, OneEntry
<1>3. CASE RegisterAgain
  <2>. DEFINE terms == Grant(consents["terms_privacy"])
  <2>1. /\ account.row = "inactive" /\ UNCHANGED <<account, word>>
        /\ consents' = [consents EXCEPT !["terms_privacy"] = terms]
    BY <1>3 DEF RegisterAgain, Returning, Logged
  <2>2. terms \in Seq(ConsentState) /\ HasOpen(terms)
    BY <1>0, GrantOpens
  <2>. HIDE DEF terms
  <2>3. /\ consents' \in [Types -> Seq(ConsentState)]
        /\ consents'["terms_privacy"] = terms
        /\ consents'["marketing"] = consents["marketing"]
    BY <1>0, <2>1, <2>2
  <2>4. ConsentIsTheLastWord'
    BY <2>1, <2>2, <2>3, ConsentsBefore, ConsentsKeep
  <2>. QED
    BY <1>1, <2>1, <2>3, <2>4
    DEF AccountInv, AccountTypes, NothingBefore, ClosedLeaves, OneEntry
<1>4. CASE RegisterPending \/ RegisterTaken
  <2>1. account.row # "absent" /\ UNCHANGED <<account, consents, word>>
    BY <1>4 DEF RegisterPending, RegisterTaken, Unverified
  <2>. QED
    BY <1>1, <2>1
    DEF AccountInv, AccountTypes, NothingBefore, ClosedLeaves, OneEntry,
        ConsentIsTheLastWord, IsCurrentlyActive, HasEverDecided
<1>. QED BY <1>2, <1>3, <1>4

\* Mails and links: minted only for an address somebody has.
LEMMA MailsKeep ==
    ASSUME AccountInv,
           \/ ResendVerification
           \/ \E mail \in mails, delivered \in BOOLEAN : SendMail(mail, delivered)
           \/ \E link \in links : LinkExpires(link)
    PROVE  AccountInv'
<1>1. UNCHANGED <<account, consents, profile, applied, pool, word, closed>>
  BY DEF ResendVerification, SendMail, LinkExpires
<1>2. account.row # "absent"
  BY DEF ResendVerification, Unverified, AccountInv, NothingBefore
<1>. QED
  BY <1>1, <1>2
  DEF AccountInv, AccountTypes, NothingBefore, ClosedLeaves, OneEntry,
      ConsentIsTheLastWord, IsCurrentlyActive, HasEverDecided

\* A link and staff switch an account that is there.
LEMMA SwitchesKeep ==
    ASSUME AccountInv,
           \/ \E link \in links : Verify(link)
           \/ \E on \in BOOLEAN : SetUserStatus(on)
    PROVE  AccountInv'
<1>1. account.row # "absent"
  BY DEF AccountInv, NothingBefore, SetUserStatus
<1>2. account \in Account /\ profile \in Candidate
  BY DEF AccountInv, AccountTypes
<1>3. UNCHANGED <<consents, mails, links, applied, pool, word>>
  BY DEF Verify, SetUserStatus
<1>4. /\ account' \in Account /\ account'.row # "absent" /\ account'.portal = account.portal
      /\ profile' \in Candidate
      /\ \/ closed' = "no"
         \/ closed' = closed /\ account'.row = "inactive" /\ profile' = profile
  <2>1. CASE \E link \in links : Verify(link)
    <3>1. /\ account' = [account EXCEPT !.row = "active", !.verified = TRUE]
          /\ profile' = Restored(profile) /\ closed' = "no"
      BY <2>1 DEF Verify
    <3>2. Restored(profile) \in Candidate
      BY <1>2 DEF Restored, Candidate, RowState
    <3>. QED BY <1>2, <3>1, <3>2 DEF Account, RowState
  <2>2. CASE \E on \in BOOLEAN : SetUserStatus(on)
    <3>1. /\ UNCHANGED profile
          /\ \/ account' = [account EXCEPT !.row = "active"] /\ closed' = "no"
             \/ account' = [account EXCEPT !.row = "inactive"] /\ closed' = closed
      BY <2>2 DEF SetUserStatus
    <3>. QED BY <1>2, <3>1 DEF Account, RowState
  <2>. QED BY <2>1, <2>2
<1>5. ConsentIsTheLastWord'
  BY <1>1, <1>3, <1>4, ConsentsBefore, ConsentsKeep
<1>. QED
  BY <1>1, <1>3, <1>4, <1>5 DEF AccountInv, AccountTypes, NothingBefore, ClosedLeaves, OneEntry

LEMMA ClosingKeeps ==
    ASSUME AccountInv, CloseAccount
    PROVE  AccountInv'
<1>. DEFINE log == Cleared(consents["marketing"])
<1>0. account \in Account /\ profile \in Candidate /\ consents \in [Types -> Seq(ConsentState)]
  BY DEF AccountInv, AccountTypes
<1>1. /\ account.row = "active" /\ account' = [account EXCEPT !.row = "inactive"]
      /\ consents' = [consents EXCEPT !["marketing"] = log]
      /\ word' = IF word = "yes" THEN "no" ELSE word
      /\ UNCHANGED <<mails, links, pool>>
  BY DEF CloseAccount, MayWork, Deactivated
<1>2. account' \in Account /\ account'.row = "inactive" /\ account'.portal = account.portal
  BY <1>0, <1>1 DEF Account, RowState
<1>3. log \in Seq(ConsentState) /\ ~HasOpen(log) /\ (log = <<>> <=> consents["marketing"] = <<>>)
  BY <1>0, RevokeCloses DEF Cleared, Types
<1>. HIDE DEF log
<1>4. /\ consents' \in [Types -> Seq(ConsentState)]
      /\ consents'["marketing"] = log
      /\ consents'["terms_privacy"] = consents["terms_privacy"]
  BY <1>0, <1>1, <1>3 DEF Types
<1>5. ConsentIsTheLastWord'
  BY <1>1, <1>2, <1>3, <1>4, ConsentsBefore, ConsentsKeep
<1>6. profile' \in Candidate /\ profile'.row # "active"
      /\ (closed' = "whole" => profile'.row = "inactive" /\ applied' # "active")
  <2>1. CASE profile.row = "active"
    <3>1. /\ profile' = [profile EXCEPT !.row = "inactive"]
          /\ applied' = IF applied = "active" THEN "inactive" ELSE applied
      BY <2>1 DEF CloseAccount
    <3>. QED BY <1>0, <3>1 DEF Candidate, RowState
  <2>2. CASE profile.row # "active"
    BY <1>0, <2>2 DEF CloseAccount
  <2>. QED BY <2>1, <2>2
<1>. QED
  BY <1>1, <1>2, <1>4, <1>5, <1>6
  DEF AccountInv, AccountTypes, NothingBefore, ClosedLeaves, OneEntry

LEMMA DecisionsKeep ==
    ASSUME AccountInv, NEW subscribed \in BOOLEAN, DecideMarketing(subscribed)
    PROVE  AccountInv'
<1>0. consents \in [Types -> Seq(ConsentState)] /\ "marketing" \in Types
  BY DEF AccountInv, AccountTypes, Types
<1>1. UNCHANGED <<account, mails, links, profile, applied, pool, closed>>
  BY DEF DecideMarketing
<1>2. PICK log \in Seq(ConsentState) :
         /\ consents' = [consents EXCEPT !["marketing"] = log]
         /\ log # <<>>
         /\ HasOpen(log) <=> subscribed
  <2>. DEFINE old == consents["marketing"]
  <2>1. old \in Seq(ConsentState) /\ (IsCurrentlyActive("marketing") <=> HasOpen(old))
    BY <1>0 DEF IsCurrentlyActive, HasOpen
  <2>2. HasOpen(old) => old # <<>>
    BY DEF HasOpen
  <2>3. CASE subscribed
    BY <2>1, <2>3, GrantOpens DEF DecideMarketing, Logged
  <2>4. CASE ~subscribed /\ IsCurrentlyActive("marketing")
    BY <2>1, <2>2, <2>4, RevokeCloses DEF DecideMarketing, Logged
  <2>5. CASE ~subscribed /\ ~IsCurrentlyActive("marketing")
    BY <2>1, <2>5, RefuseAdds DEF DecideMarketing, Logged
  <2>. QED BY <2>3, <2>4, <2>5
<1>3. /\ consents' \in [Types -> Seq(ConsentState)]
      /\ consents'["marketing"] = log
      /\ consents'["terms_privacy"] = consents["terms_privacy"]
  BY <1>0, <1>2 DEF Types
<1>4. word' = IF subscribed THEN "yes" ELSE "no"
  BY DEF DecideMarketing
<1>5. ConsentIsTheLastWord'
  BY <1>1, <1>2, <1>3, <1>4, ConsentsBefore, ConsentsKeep
<1>. QED
  BY <1>1, <1>3, <1>5 DEF AccountInv, AccountTypes, NothingBefore, ClosedLeaves, OneEntry

\* The profile and the application of somebody who has not closed.
LEMMA ProfilesKeep ==
    ASSUME AccountInv, ProfileRequest \/ DeleteProfile
    PROVE  AccountInv'
<1>1. UNCHANGED <<account, consents, mails, links, pool, word, closed>>
  BY DEF ProfileRequest, CreateProfile, UpdateProfile, Apply, Withdraw, DeleteProfile
<1>2. profile \in Candidate
  BY DEF AccountInv, AccountTypes
<1>3. /\ profile' \in Candidate
      /\ closed # "no" => profile' = profile /\ (applied' = applied \/ applied' # "active")
  <2>1. ASSUME NEW actor, NEW cedula \in Cedulas \cup {NULL}, CreateProfile(actor, cedula)
        PROVE  profile' \in Candidate /\ account.row = "active"
    BY <2>1 DEF CreateProfile, Candidate, RowState
  <2>2. ASSUME NEW actor, NEW cedula \in Cedulas \cup {NULL}, UpdateProfile(actor, cedula)
        PROVE  profile' \in Candidate /\ profile.row = "active"
    BY <1>2, <2>2 DEF UpdateProfile, Candidate
  <2>3. CASE DeleteProfile
    BY <1>2, <2>3 DEF DeleteProfile, Candidate, RowState, AccountInv, ClosedLeaves
  <2>4. CASE \E actor \in Actor : Apply(actor) \/ Withdraw(actor)
    BY <1>2, <2>4 DEF Apply, Withdraw, AccountInv, ClosedLeaves
  <2>5. closed # "no" => account.row = "inactive" /\ profile.row # "active"
    BY DEF AccountInv, ClosedLeaves
  <2>. QED BY <2>1, <2>2, <2>3, <2>4, <2>5 DEF ProfileRequest
<1>. QED
  BY <1>1, <1>3
  DEF AccountInv, AccountTypes, NothingBefore, ClosedLeaves, OneEntry, ConsentIsTheLastWord,
      IsCurrentlyActive, HasEverDecided

LEMMA PoolKeeps ==
    ASSUME AccountInv, PoolRequest
    PROVE  AccountInv'
<1>1. UNCHANGED <<account, consents, mails, links, profile, applied, word, closed>>
  BY DEF PoolRequest, AddToPool, RemoveFromPool
<1>2. pool' \in [Sources -> Nat] /\ OneEntry'
  BY DEF PoolRequest, AddToPool, RemoveFromPool, Listed, AccountInv, AccountTypes, OneEntry
<1>. QED
  BY <1>1, <1>2
  DEF AccountInv, AccountTypes, NothingBefore, ClosedLeaves, ConsentIsTheLastWord,
      IsCurrentlyActive, HasEverDecided

THEOREM AccountInvariant == Spec => []AccountInv
<1>1. AccountInv /\ [Next]_vars => AccountInv'
  <2>1. AccountInv /\ Next => AccountInv'
    BY RegistrationsKeep, MailsKeep, SwitchesKeep, ClosingKeeps, DecisionsKeep, ProfilesKeep,
       PoolKeeps
    DEF Next, SignUp, Register, MailTasks
  <2>2. AccountInv /\ UNCHANGED vars => AccountInv'
    BY DEF AccountInv, AccountTypes, NothingBefore, ClosedLeaves, OneEntry,
           ConsentIsTheLastWord, IsCurrentlyActive, HasEverDecided, vars
  <2>. QED BY <2>1, <2>2
<1>. QED BY <1>1, AccountStarts, PTL DEF Spec

\* The log of consents says what the user last said, however long it is.
THEOREM ConsentFollowsTheUser == Spec => []ConsentIsTheLastWord
BY AccountInvariant, PTL DEF AccountInv

\* Nobody is listed twice for one source vacancy.
THEOREM PoolListsOnce == Spec => []ListedOnce
<1>1. AccountInv => ListedOnce
  <2> SUFFICES ASSUME AccountInv, NEW source \in Sources,
                      NEW d \in PoolListing(source), NEW e \in PoolListing(source), d[1] = e[1]
               PROVE  d = e
    BY DEF ListedOnce
  <2>1. MaxEntries \in Nat
    BY AccountAssumption
  <2>2. /\ d \in Sources \X (1..MaxEntries) /\ e \in Sources \X (1..MaxEntries)
        /\ d[2] <= pool[d[1]] /\ e[2] <= pool[e[1]]
    BY DEF PoolListing
  <2>3. pool[d[1]] \in Nat /\ pool[d[1]] <= 1
    BY <2>2 DEF AccountInv, AccountTypes, OneEntry
  <2>4. d[2] \in 1..MaxEntries /\ e[2] \in 1..MaxEntries
    BY <2>2
  <2>5. d[2] = e[2]
    BY <2>1, <2>2, <2>3, <2>4
  <2>. QED BY <2>2, <2>5
<1>. QED BY <1>1, AccountInvariant, PTL

\* What its owner closed is in no directory, no mailing and no board.
THEOREM ClosedAccountsAreGone == Spec => []ClosedIsGone
<1>1. AccountInv => ClosedIsGone
  BY DEF AccountInv, ClosedLeaves, ClosedIsGone, Subscriber, InDirectory,
         InCandidateList, InExpanded
<1>. QED BY <1>1, AccountInvariant, PTL

\* The link that brings the account back brings its profile back.
THEOREM ReturningBringsTheProfile == Spec => ComesBackWhole
<1>1. ASSUME AccountInv, NEW link, Verify(link), closed = "whole"
      PROVE  profile'.row = "active" /\ account'.verified
  <2>1. profile.row = "inactive" /\ profile \in Candidate /\ account \in Account
    BY <1>1 DEF AccountInv, AccountTypes, ClosedLeaves
  <2>. QED BY <1>1, <2>1 DEF Verify, Restored, Candidate, Account
<1>2. AccountInv /\ [Next]_vars =>
        [\A link \in links : Verify(link) /\ closed = "whole"
            => profile'.row = "active" /\ account'.verified]_vars
  BY <1>1
<1>. QED BY <1>2, AccountInvariant, PTL DEF Spec, ComesBackWhole
-----------------------------------------------------------------------------
(* Sign-in sessions                                                        *)

\* The part of the type invariant the arguments below rest on.
SessionTypes ==
    /\ user \in [active : BOOLEAN, mustChange : BOOLEAN, loggedIn : BOOLEAN]
    /\ resetLinks \subseteq ResetLink
    /\ tokens \in [Slots -> Token]
    /\ reading \in [Slots -> Nat]
    /\ denied \in [age : Nat, left : Nat]

\* Nobody works with a slot that holds no token.
SlotsAreFree ==
    \A k \in Slots : tokens[k].row = "absent" => tokens[k].access = 0 /\ reading[k] = 0

\* The marker goes when it is older than any access token it was written for.
MarkerOutlives == denied.left > 0 => denied.age + denied.left = AccessTTL + Skew

\* An ended token is revoked or expired, and the marker is younger than its
\* access token.
EndedAreCovered ==
    \A k \in Slots :
        /\ ~user.active /\ tokens[k].row # "absent" => tokens[k].ended \/ tokens[k].stray
        /\ tokens[k].ended =>
              /\ tokens[k].row = "valid" => tokens[k].refresh = 0
              /\ tokens[k].access > 0 =>
                    denied.left > 0 /\ denied.age <= AccessTTL - tokens[k].access

\* One row per sign-in has not been revoked.
OneRowPerLogin ==
    \A k, j \in Slots : tokens[k].row = "valid" /\ tokens[j].row = "valid"
                           /\ tokens[k].login = tokens[j].login => k = j

UsedDoNotMatch == \A l \in resetLinks : l.used => ~l.matches

SessionInv ==
    /\ SessionTypes /\ SlotsAreFree /\ MarkerOutlives
    /\ EndedAreCovered /\ OneRowPerLogin /\ UsedDoNotMatch

\* What a fresh token and an empty slot are.
LEMMA TokenTypes ==
    ASSUME NEW k \in Slots, NEW stray \in BOOLEAN
    PROVE  NewToken(k, stray) \in Token /\ NoToken(k) \in Token
BY SessionAssumption DEF NewToken, NoToken, Token

LEMMA NewTokens ==
    ASSUME NEW k \in Slots
    PROVE  /\ \A stray \in BOOLEAN :
                NewToken(k, stray) \in Token /\ NewToken(k, stray).row = "valid"
           /\ \A stray \in BOOLEAN :
                ~NewToken(k, stray).ended /\ NewToken(k, stray).login = k
           /\ NewToken(k, TRUE).stray
BY TokenTypes DEF NewToken

LEMMA SessionStarts == SessionsInit => SessionInv
<1> SUFFICES ASSUME SessionsInit PROVE SessionInv
  OBVIOUS
<1>1. SessionTypes
  <2>1. \A k \in Slots : NoToken(k) \in Token
    BY TokenTypes
  <2>. QED BY <2>1 DEF SessionsInit, SessionTypes, NoMarker
<1>2. \A k \in Slots : /\ tokens[k].row = "absent" /\ tokens[k].access = 0
                       /\ tokens[k].ended = FALSE /\ reading[k] = 0
  BY DEF SessionsInit, NoToken
<1>3. user.active = TRUE /\ denied.left = 0 /\ resetLinks = {}
  BY DEF SessionsInit, NoMarker
<1>. QED
  BY <1>1, <1>2, <1>3
  DEF SessionInv, SlotsAreFree, MarkerOutlives, EndedAreCovered, OneRowPerLogin, UsedDoNotMatch

Placed(ts, k, t) == [ts EXCEPT ![k] = t]

\* A new token in a free slot, with a sign-in no valid row has.
LEMMA IssuingKeeps ==
    ASSUME SessionInv, NEW j \in Slots, NEW new \in Token,
           new.row = "valid", ~new.ended, user.active \/ new.stray,
           tokens[j].row = "absent",
           NEW ts \in [Slots -> Token],
           \A k \in Slots : /\ ts[k].access = tokens[k].access
                            /\ ts[k].refresh = tokens[k].refresh
                            /\ ts[k].login = tokens[k].login
                            /\ ts[k].ended = tokens[k].ended
                            /\ ts[k].stray = tokens[k].stray
                            /\ \/ ts[k].row = tokens[k].row
                               \/ tokens[k].row = "valid" /\ ts[k].row = "revoked",
           \A k \in Slots : ts[k].row = "valid" => ts[k].login # new.login,
           tokens' = Placed(ts, j, new),
           reading' \in [Slots -> Nat],
           \A k \in Slots : reading[k] = 0 => reading'[k] = 0,
           user' \in [active : BOOLEAN, mustChange : BOOLEAN, loggedIn : BOOLEAN],
           user'.active <=> user.active,
           UNCHANGED <<denied, resetLinks>>
    PROVE  SessionInv'
<1>2. /\ tokens' \in [Slots -> Token]
      /\ tokens'[j] = new
      /\ \A k \in Slots : k # j => tokens'[k] = ts[k]
  BY DEF Placed
<1>3. SessionTypes'
  BY <1>2 DEF SessionInv, SessionTypes
<1>4. SlotsAreFree'
  BY <1>2 DEF SessionInv, SlotsAreFree
<1>5. EndedAreCovered'
  <2>1. ~tokens'[j].ended /\ (~user'.active => tokens'[j].stray)
    BY <1>2
  <2>2. ASSUME NEW k \in Slots, k # j
        PROVE  /\ ~user'.active /\ tokens'[k].row # "absent" => tokens'[k].ended \/ tokens'[k].stray
               /\ tokens'[k].ended =>
                    /\ tokens'[k].row = "valid" => tokens'[k].refresh = 0
                    /\ tokens'[k].access > 0 =>
                          denied'.left > 0 /\ denied'.age <= AccessTTL - tokens'[k].access
    BY <1>2, <2>2 DEF SessionInv, EndedAreCovered
  <2>. QED BY <2>1, <2>2 DEF EndedAreCovered
<1>6. OneRowPerLogin'
  BY <1>2 DEF SessionInv, OneRowPerLogin
<1>7. MarkerOutlives' /\ UsedDoNotMatch'
  BY DEF SessionInv, MarkerOutlives, UsedDoNotMatch
<1>. QED BY <1>3, <1>4, <1>5, <1>6, <1>7 DEF SessionInv

LEMMA LoginKeeps ==
    ASSUME SessionInv, NEW k \in Slots, Login(k)
    PROVE  SessionInv'
<1>0. UNCHANGED <<denied, reading>>
  BY DEF Login
<1>1. CASE UNCHANGED <<user, tokens, resetLinks>>
  BY <1>0, <1>1 DEF SessionInv, SessionTypes, SlotsAreFree, MarkerOutlives, EndedAreCovered,
              OneRowPerLogin, UsedDoNotMatch
<1>2. CASE ~UNCHANGED <<user, tokens, resetLinks>>
  <2>. DEFINE new == NewToken(k, FALSE)
  <2>1. /\ user.active /\ k \in Free
        /\ Unnamed(k)
        /\ tokens' = Placed(tokens, k, new)
        /\ user' = [user EXCEPT !.loggedIn = TRUE]
        /\ UNCHANGED resetLinks
    BY <1>2 DEF Login, RolledBack, Issued, Placed
  <2>4. /\ new \in Token /\ new.row = "valid" /\ ~new.ended /\ new.login = k
    BY NewTokens
  <2>. HIDE DEF new
  <2>2. /\ user'.active <=> user.active
        /\ user' \in [active : BOOLEAN, mustChange : BOOLEAN, loggedIn : BOOLEAN]
    BY <2>1 DEF SessionInv, SessionTypes
  <2>3. /\ tokens \in [Slots -> Token] /\ tokens[k].row = "absent"
        /\ \A j \in Slots : tokens[j].row = "valid" => tokens[j].login # k
        /\ reading' \in [Slots -> Nat]
        /\ \A j \in Slots : reading[j] = 0 => reading'[j] = 0
    BY <1>0, <2>1 DEF Free, Unnamed, SessionInv, SessionTypes
  <2>5. UNCHANGED <<denied, resetLinks>> /\ (user.active \/ new.stray)
    BY <1>0, <2>1
  <2>6. \A i \in Slots : /\ tokens[i].access = tokens[i].access
                         /\ tokens[i].refresh = tokens[i].refresh
                         /\ tokens[i].login = tokens[i].login
                         /\ tokens[i].ended = tokens[i].ended
                         /\ tokens[i].stray = tokens[i].stray
                         /\ \/ tokens[i].row = tokens[i].row
                            \/ tokens[i].row = "valid" /\ tokens[i].row = "revoked"
    OBVIOUS
  <2>7. \A i \in Slots : tokens[i].row = "valid" => tokens[i].login # new.login
    BY <2>3, <2>4
  <2>. QED BY <2>1, <2>2, <2>3, <2>4, <2>5, <2>6, <2>7, IssuingKeeps, ZenonT(30)
<1>. QED BY <1>1, <1>2

LEMMA ReadKeeps ==
    ASSUME SessionInv, NEW k \in Slots, ReadToken(k)
    PROVE  SessionInv'
<1>1. /\ tokens[k].row = "valid" /\ reading' = [reading EXCEPT ![k] = @ + 1]
      /\ UNCHANGED <<user, tokens, denied, resetLinks>>
  BY DEF ReadToken, Valid
<1>2. reading \in [Slots -> Nat]
  BY DEF SessionInv, SessionTypes
<1>3. /\ reading' \in [Slots -> Nat]
      /\ \A i \in Slots : i # k => reading'[i] = reading[i]
  BY <1>1, <1>2
<1>. QED
  BY <1>1, <1>3
  DEF SessionInv, SessionTypes, SlotsAreFree, MarkerOutlives, EndedAreCovered, OneRowPerLogin,
      UsedDoNotMatch

LEMMA RotateKeeps ==
    ASSUME SessionInv, NEW k \in Slots, NEW j \in Slots, Rotate(k, j)
    PROVE  SessionInv'
<1>. DEFINE ts == RevokeRow(tokens, k)
<1>0. /\ tokens \in [Slots -> Token] /\ reading \in [Slots -> Nat]
      /\ user \in [active : BOOLEAN, mustChange : BOOLEAN, loggedIn : BOOLEAN]
  BY DEF SessionInv, SessionTypes
<1>1. /\ reading[k] > 0 /\ reading' = [reading EXCEPT ![k] = @ - 1]
      /\ tokens[j].row = "absent"
      /\ \/ ~Overtaken(k) /\ tokens' = Placed(ts, j, NewToken(tokens[k].login, FALSE))
         \/ Unnamed(j) /\ tokens' = Placed(ts, j, NewToken(j, TRUE))
      /\ UNCHANGED <<user, denied, resetLinks>>
  BY DEF Rotate, Rotated, Free, Issued, Placed
<1>2. /\ ts \in [Slots -> Token]
      /\ ts[k] = [tokens[k] EXCEPT !.row = "revoked"]
      /\ \A i \in Slots : i # k => ts[i] = tokens[i]
  BY <1>0 DEF RevokeRow, Token
<1>. HIDE DEF ts
<1>3. tokens[k] \in Token /\ tokens[k].row \in {"valid", "revoked"} /\ ts[k].row = "revoked"
  <2>1. tokens[k] \in Token /\ reading[k] # 0
    BY <1>0, <1>1
  <2>2. tokens[k].row # "absent"
    BY <2>1 DEF SessionInv, SlotsAreFree
  <2>. QED BY <1>2, <2>1, <2>2 DEF Token
<1>4. \A i \in Slots : /\ ts[i].access = tokens[i].access
                       /\ ts[i].refresh = tokens[i].refresh
                       /\ ts[i].login = tokens[i].login
                       /\ ts[i].ended = tokens[i].ended
                       /\ ts[i].stray = tokens[i].stray
                       /\ \/ ts[i].row = tokens[i].row
                          \/ tokens[i].row = "valid" /\ ts[i].row = "revoked"
  BY <1>2, <1>3 DEF Token
<1>5. /\ reading' \in [Slots -> Nat]
      /\ \A i \in Slots : reading[i] = 0 => reading'[i] = 0
  BY <1>0, <1>1
<1>6. CASE ~Overtaken(k) /\ tokens' = Placed(ts, j, NewToken(tokens[k].login, FALSE))
  <2>. DEFINE new == NewToken(tokens[k].login, FALSE)
  <2>1. tokens[k].row = "valid" /\ user.active
    BY <1>6 DEF Overtaken
  <2>2. \A i \in Slots : ts[i].row = "valid" => ts[i].login # tokens[k].login
    BY <1>3, <1>4, <2>1 DEF SessionInv, OneRowPerLogin
  <2>3. tokens[k].login \in Slots
    BY <1>3 DEF Token
  <2>4. new \in Token /\ new.row = "valid" /\ ~new.ended /\ new.login = tokens[k].login
    BY <2>3, NewTokens
  <2>5. tokens' = Placed(ts, j, new)
    BY <1>6
  <2>. HIDE DEF new
  <2>. QED BY <1>0, <1>1, <1>2, <1>4, <1>5, <2>1, <2>2, <2>4, <2>5, IssuingKeeps
<1>7. CASE Unnamed(j) /\ tokens' = Placed(ts, j, NewToken(j, TRUE))
  <2>. DEFINE new == NewToken(j, TRUE)
  <2>1. \A i \in Slots : ts[i].row = "valid" => ts[i].login # j
    BY <1>4, <1>7 DEF Unnamed
  <2>2. new \in Token /\ new.row = "valid" /\ ~new.ended /\ new.login = j /\ new.stray
    BY NewTokens
  <2>3. tokens' = Placed(ts, j, new)
    BY <1>7
  <2>. HIDE DEF new
  <2>. QED BY <1>0, <1>1, <1>2, <1>4, <1>5, <2>1, <2>2, <2>3, IssuingKeeps
<1>. QED BY <1>1, <1>6, <1>7

\* Revoking rows and renewing the marker end no more than they should.
LEMMA RevokingKeeps ==
    ASSUME SessionInv,
           \/ \E k \in Slots : Logout(k) \/ RefreshAgain(k)
           \/ UNCHANGED <<user, tokens, reading, resetLinks>> /\ denied' = MarkerSet
    PROVE  SessionInv'
<1>1. /\ tokens' \in [Slots -> Token]
      /\ \A k \in Slots : /\ tokens'[k].access = tokens[k].access
                          /\ tokens'[k].refresh = tokens[k].refresh
                          /\ tokens'[k].login = tokens[k].login
                          /\ tokens'[k].ended = tokens[k].ended
                          /\ tokens'[k].stray = tokens[k].stray
                          /\ \/ tokens'[k].row = tokens[k].row
                             \/ tokens[k].row = "valid" /\ tokens'[k].row = "revoked"
  <2>1. tokens \in [Slots -> Token]
    BY DEF SessionInv, SessionTypes
  <2>2. CASE \E k \in Slots : Logout(k)
    <3>1. PICK k \in Slots : Logout(k)
      BY <2>2
    <3>2. tokens[k].row = "valid" /\ tokens' = [tokens EXCEPT ![k].row = "revoked"]
      BY <3>1 DEF Logout, Valid, RevokeRow
    <3>3. tokens[k] \in Token
      BY <2>1
    <3>. QED BY <2>1, <3>2, <3>3 DEF Token
  <2>3. CASE UNCHANGED tokens
    BY <2>1, <2>3
  <2>. QED BY <2>2, <2>3 DEF RefreshAgain
<1>2. denied' = denied \/ denied' = MarkerSet
  BY DEF Logout, RefreshAgain
<1>3. MarkerSet \in [age : Nat, left : Nat] /\ MarkerSet.age = 0 /\ MarkerSet.left = AccessTTL + Skew
  BY SessionAssumption DEF MarkerSet
<1>4. UNCHANGED <<user, reading, resetLinks>>
  BY DEF Logout, RefreshAgain
<1>5. SessionTypes'
  BY <1>1, <1>2, <1>3, <1>4 DEF SessionInv, SessionTypes
<1>6. SlotsAreFree' /\ OneRowPerLogin' /\ UsedDoNotMatch'
  BY <1>1, <1>4 DEF SessionInv, SlotsAreFree, OneRowPerLogin, UsedDoNotMatch
<1>7. MarkerOutlives'
  BY <1>2, <1>3, SessionAssumption DEF SessionInv, MarkerOutlives
<1>8. EndedAreCovered'
  <2>1. \A k \in Slots : tokens[k].access \in 0..AccessTTL
    BY DEF SessionInv, SessionTypes, Token
  <2>. QED BY <1>1, <1>2, <1>3, <1>4, <2>1, SessionAssumption DEF SessionInv, EndedAreCovered
<1>. QED BY <1>5, <1>6, <1>7, <1>8 DEF SessionInv

\* A change of password, a reset and a deactivation end what there is.
LEMMA EndingKeeps ==
    ASSUME SessionInv,
           tokens' = Ended(AllRevoked(tokens)), denied' = MarkerSet, UNCHANGED reading,
           user' \in [active : BOOLEAN, mustChange : BOOLEAN, loggedIn : BOOLEAN],
           resetLinks' \subseteq ResetLink, \A l \in resetLinks' : l.used => ~l.matches
    PROVE  SessionInv'
<1>. DEFINE ts == AllRevoked(tokens)
<1>0. tokens \in [Slots -> Token]
  BY DEF SessionInv, SessionTypes
<1>1. /\ ts \in [Slots -> Token]
      /\ \A k \in Slots : /\ ts[k].access = tokens[k].access
                          /\ ts[k].refresh = tokens[k].refresh
                          /\ ts[k].row = "valid" => ts[k].refresh = 0
                          /\ ts[k].login = tokens[k].login
                          /\ ts[k].row = "valid" => tokens[k].row = "valid"
                          /\ ts[k].row = "absent" <=> tokens[k].row = "absent"
  <2>1. ASSUME NEW k \in Slots
        PROVE  /\ ts[k] \in Token
               /\ ts[k].row = "valid" => ts[k].refresh = 0
               /\ ts[k].login = tokens[k].login
               /\ ts[k].row = "valid" => tokens[k].row = "valid"
               /\ ts[k].access = tokens[k].access /\ ts[k].refresh = tokens[k].refresh
               /\ ts[k].row = "absent" <=> tokens[k].row = "absent"
    <3>1. tokens[k] \in Token
      BY <1>0
    <3>2. ts[k] = IF tokens[k].row = "valid" /\ tokens[k].refresh > 0
                  THEN [tokens[k] EXCEPT !.row = "revoked"] ELSE tokens[k]
      BY DEF AllRevoked
    <3>3. tokens[k].refresh \in Nat
      BY <3>1, SessionAssumption DEF Token
    <3>4. CASE tokens[k].row = "valid" /\ tokens[k].refresh > 0
      <4>1. ts[k] = [tokens[k] EXCEPT !.row = "revoked"]
        BY <3>2, <3>4
      <4>. HIDE DEF ts
      <4>. QED BY <3>1, <3>4, <4>1 DEF Token
    <3>5. CASE ~(tokens[k].row = "valid" /\ tokens[k].refresh > 0)
      <4>1. ts[k] = tokens[k]
        BY <3>2, <3>5
      <4>. HIDE DEF ts
      <4>. QED BY <3>1, <3>3, <3>5, <4>1
    <3>. QED BY <3>4, <3>5
  <2>. QED BY <2>1 DEF AllRevoked
<1>. HIDE DEF ts
<1>2. /\ tokens' \in [Slots -> Token]
      /\ \A k \in Slots : /\ tokens'[k].access = tokens[k].access
                          /\ tokens'[k].refresh = tokens[k].refresh
                          /\ tokens'[k].row = "valid" => tokens'[k].refresh = 0
                          /\ tokens'[k].login = tokens[k].login
                          /\ tokens'[k].row = "valid" => tokens[k].row = "valid"
                          /\ tokens'[k].row = "absent" <=> tokens[k].row = "absent"
                          /\ tokens'[k].row # "absent" => tokens'[k].ended
  <2>1. tokens' = [k \in Slots |-> [ts[k] EXCEPT !.ended = ts[k].row # "absent"]]
    BY DEF Ended, ts
  <2>2. ASSUME NEW k \in Slots
        PROVE  /\ tokens'[k] \in Token
               /\ tokens'[k].access = ts[k].access /\ tokens'[k].refresh = ts[k].refresh
               /\ tokens'[k].row = ts[k].row /\ tokens'[k].login = ts[k].login
               /\ tokens'[k].row # "absent" => tokens'[k].ended
    <3>1. ts[k] \in Token
      BY <1>1
    <3>2. CASE ts[k].row # "absent"
      <4>1. tokens'[k] = [ts[k] EXCEPT !.ended = TRUE]
        BY <2>1, <3>2
      <4>. QED BY <3>1, <4>1 DEF Token
    <3>3. CASE ts[k].row = "absent"
      <4>1. tokens'[k] = [ts[k] EXCEPT !.ended = FALSE]
        BY <2>1, <3>3
      <4>. QED BY <3>1, <3>3, <4>1 DEF Token
    <3>. QED BY <3>2, <3>3
  <2>3. tokens' \in [Slots -> Token]
    <3>. DEFINE e == [k \in Slots |-> [ts[k] EXCEPT !.ended = ts[k].row # "absent"]]
    <3>1. \A k \in Slots : e[k] \in Token
      BY <2>1, <2>2
    <3>. HIDE DEF e
    <3>2. e = [k \in Slots |-> e[k]]
      BY DEF e
    <3>. QED BY <2>1, <3>1, <3>2 DEF e
  <2>. QED BY <1>1, <2>2, <2>3
<1>3. MarkerSet \in [age : Nat, left : Nat] /\ MarkerSet.age = 0 /\ MarkerSet.left = AccessTTL + Skew
  BY SessionAssumption DEF MarkerSet
<1>4. SessionTypes'
  BY <1>2, <1>3 DEF SessionInv, SessionTypes
<1>5. SlotsAreFree' /\ OneRowPerLogin'
  BY <1>2 DEF SessionInv, SlotsAreFree, OneRowPerLogin
<1>6. MarkerOutlives'
  BY <1>3, SessionAssumption DEF MarkerOutlives
<1>7. EndedAreCovered'
  <2>1. \A k \in Slots : tokens[k].access \in 0..AccessTTL
    BY <1>0 DEF Token
  <2>. QED BY <1>2, <1>3, <2>1, SessionAssumption DEF EndedAreCovered
<1>. QED BY <1>4, <1>5, <1>6, <1>7 DEF SessionInv, UsedDoNotMatch

LEMMA PasswordsKeep ==
    ASSUME SessionInv,
           \/ \E k \in Slots : ChangePassword(k)
           \/ \E l \in resetLinks : ResetPassword(l)
           \/ Deactivate
    PROVE  SessionInv'
<1>0. UNCHANGED reading
  BY DEF ChangePassword, ResetPassword, Deactivate
<1>1. CASE UNCHANGED <<user, tokens, resetLinks>> /\ denied' = MarkerSet
  BY <1>0, <1>1, RevokingKeeps
<1>2. CASE ~UNCHANGED <<user, tokens, resetLinks>>
  <2>1. tokens' = Ended(AllRevoked(tokens)) /\ denied' = MarkerSet
    BY <1>2 DEF ChangePassword, ResetPassword, Deactivate, RolledBack
  <2>2. user' \in [active : BOOLEAN, mustChange : BOOLEAN, loggedIn : BOOLEAN]
    <3>1. \/ user' = [user EXCEPT !.mustChange = FALSE]
          \/ user' = [user EXCEPT !.active = FALSE]
      BY <1>2 DEF ChangePassword, ResetPassword, Deactivate, RolledBack
    <3>. QED BY <3>1 DEF SessionInv, SessionTypes
  <2>3. resetLinks' \subseteq ResetLink /\ \A l \in resetLinks' : l.used => ~l.matches
    <3>1. resetLinks \subseteq ResetLink /\ \A l \in resetLinks : l.used => ~l.matches
      BY DEF SessionInv, SessionTypes, UsedDoNotMatch
    <3>2. CASE UNCHANGED resetLinks
      BY <3>1, <3>2
    <3>3. CASE NewPassword
      BY <3>1, <3>3 DEF NewPassword, ResetLink
    <3>4. ASSUME NEW l \in resetLinks,
                 resetLinks' = {[x EXCEPT !.matches = FALSE] : x \in resetLinks \ {l}}
                            \cup {[l EXCEPT !.matches = FALSE, !.used = TRUE]}
          PROVE  resetLinks' \subseteq ResetLink /\ \A x \in resetLinks' : x.used => ~x.matches
      <4>1. \A x \in ResetLink : /\ [x EXCEPT !.matches = FALSE] \in ResetLink
                            /\ [x EXCEPT !.matches = FALSE].matches = FALSE
        BY DEF ResetLink
      <4>2. /\ [l EXCEPT !.matches = FALSE, !.used = TRUE] \in ResetLink
            /\ [l EXCEPT !.matches = FALSE, !.used = TRUE].matches = FALSE
        <5>1. l \in ResetLink
          BY <3>1
        <5>. QED BY <5>1 DEF ResetLink
      <4>. QED BY <3>1, <3>4, <4>1, <4>2
    <3>. QED BY <1>2, <3>2, <3>3, <3>4 DEF ChangePassword, ResetPassword, Deactivate, RolledBack
  <2>. QED BY <1>0, <2>1, <2>2, <2>3, EndingKeeps
<1>3. denied' = MarkerSet
  BY DEF ChangePassword, ResetPassword, Deactivate
<1>. QED BY <1>1, <1>2, <1>3

LEMMA OthersKeep ==
    ASSUME SessionInv,
           OtherLogin \/ ForgotPassword \/ SendResetMail \/ Reactivate
    PROVE  SessionInv'
<1>1. UNCHANGED <<tokens, reading, denied>>
  BY DEF OtherLogin, ForgotPassword, SendResetMail, Reactivate
<1>2. /\ user' \in [active : BOOLEAN, mustChange : BOOLEAN, loggedIn : BOOLEAN]
      /\ user.active => user'.active
  <2>1. UNCHANGED user \/ user' = [user EXCEPT !.active = TRUE]
    BY DEF OtherLogin, ForgotPassword, SendResetMail, Reactivate
  <2>. QED BY <2>1 DEF SessionInv, SessionTypes
<1>3. resetLinks' \subseteq ResetLink /\ \A l \in resetLinks' : l.used => ~l.matches
  <2>. DEFINE new == [matches |-> TRUE, left |-> LinkTTL, used |-> FALSE]
  <2>1. resetLinks \subseteq ResetLink /\ \A l \in resetLinks : l.used => ~l.matches
    BY DEF SessionInv, SessionTypes, UsedDoNotMatch
  <2>2. new \in ResetLink /\ new.used = FALSE
    BY SessionAssumption DEF ResetLink
  <2>3. CASE UNCHANGED resetLinks \/ resetLinks' = resetLinks \cup {new}
    BY <2>1, <2>2, <2>3
  <2>4. CASE NewPassword
    BY <2>1, <2>4 DEF NewPassword, ResetLink
  <2>. QED BY <2>3, <2>4 DEF OtherLogin, ForgotPassword, SendResetMail, Reactivate
<1>. QED
  BY <1>1, <1>2, <1>3
  DEF SessionInv, SessionTypes, SlotsAreFree, MarkerOutlives, EndedAreCovered, OneRowPerLogin,
      UsedDoNotMatch

\* A second passes for the tokens and for the marker alike.
LEMMA TickKeeps ==
    ASSUME SessionInv, Tick
    PROVE  SessionInv'
<1>0. tokens \in [Slots -> Token] /\ denied \in [age : Nat, left : Nat]
  BY DEF SessionInv, SessionTypes
<1>1. ASSUME NEW k \in Slots
      PROVE  /\ tokens'[k] \in Token
             /\ \/ /\ tokens'[k].row = "absent" /\ tokens'[k].access = 0
                   /\ tokens'[k].ended = FALSE /\ reading[k] = 0
                \/ /\ tokens'[k].refresh = Before(tokens[k].refresh)
                   /\ tokens'[k].row = tokens[k].row
                   /\ tokens'[k].stray = tokens[k].stray
                   /\ tokens'[k].access = Before(tokens[k].access)
                   /\ tokens'[k].ended = tokens[k].ended
                   /\ tokens'[k].login = tokens[k].login
  <2>. DEFINE t == [tokens[k] EXCEPT !.access = Before(@), !.refresh = Before(@)]
  <2>1. tokens[k] \in Token
    BY <1>0
  <2>2. Before(tokens[k].access) \in 0..AccessTTL /\ Before(tokens[k].refresh) \in 0..RefreshTTL
    BY <2>1, SessionAssumption DEF Token, Before
  <2>3. /\ t \in Token /\ t.row = tokens[k].row /\ t.ended = tokens[k].ended
        /\ t.login = tokens[k].login /\ t.stray = tokens[k].stray
        /\ t.access = Before(tokens[k].access) /\ t.refresh = Before(tokens[k].refresh)
    BY <2>1, <2>2 DEF Token
  <2>4. tokens'[k] = IF t.refresh = 0 /\ reading[k] = 0 THEN NoToken(k) ELSE t
    BY DEF Tick, OlderToken
  <2>. HIDE DEF t
  <2>5. CASE t.refresh = 0 /\ reading[k] = 0
    <3>1. tokens'[k] = NoToken(k) /\ NoToken(k) \in Token
      BY <2>4, <2>5, TokenTypes
    <3>. QED BY <2>5, <3>1 DEF NoToken
  <2>6. CASE ~(t.refresh = 0 /\ reading[k] = 0)
    BY <2>2, <2>3, <2>4, <2>6
  <2>. QED BY <2>5, <2>6
<1>2. tokens' \in [Slots -> Token]
  BY <1>1 DEF Tick
<1>3. UNCHANGED <<user, reading>> /\ denied' = Aged(denied)
  BY DEF Tick
<1>4. \/ denied.left <= 1 /\ denied'.left = 0 /\ denied' \in [age : Nat, left : Nat]
      \/ /\ denied.left > 1 /\ denied' \in [age : Nat, left : Nat]
         /\ denied'.age = denied.age + 1 /\ denied'.left = denied.left - 1
  BY <1>0, <1>3 DEF Aged, NoMarker
<1>10. resetLinks' \subseteq ResetLink /\ \A l \in resetLinks' : l.used => ~l.matches
  <2>1. resetLinks \subseteq ResetLink /\ \A l \in resetLinks : l.used => ~l.matches
    BY DEF SessionInv, SessionTypes, UsedDoNotMatch
  <2>2. \A l \in ResetLink : l.left > 1 => /\ [l EXCEPT !.left = @ - 1] \in ResetLink
                                      /\ [l EXCEPT !.left = @ - 1].used = l.used
                                      /\ [l EXCEPT !.left = @ - 1].matches = l.matches
    BY SessionAssumption DEF ResetLink
  <2>3. resetLinks' = {[l EXCEPT !.left = @ - 1] : l \in {x \in resetLinks : x.left > 1}}
    BY DEF Tick
  <2>. QED BY <2>1, <2>2, <2>3
<1>5. SessionTypes'
  BY <1>2, <1>3, <1>4, <1>10 DEF SessionInv, SessionTypes
<1>6. SlotsAreFree'
  <2>1. ASSUME NEW k \in Slots, tokens'[k].row = "absent"
        PROVE  tokens'[k].access = 0 /\ reading[k] = 0
    <3>1. tokens[k].row = "absent" => Before(tokens[k].access) = 0 /\ reading[k] = 0
      BY DEF SessionInv, SlotsAreFree, Before
    <3>. QED BY <1>1, <2>1, <3>1
  <2>. QED BY <1>3, <2>1 DEF SlotsAreFree
<1>7. OneRowPerLogin'
  BY <1>1 DEF SessionInv, OneRowPerLogin
<1>8. MarkerOutlives'
  BY <1>0, <1>4, SessionAssumption DEF SessionInv, MarkerOutlives
<1>9. EndedAreCovered'
  <2>1. ASSUME NEW k \in Slots, tokens'[k].ended, tokens'[k].access > 0
        PROVE  denied'.left > 0 /\ denied'.age <= AccessTTL - tokens'[k].access
    <3>1. /\ tokens[k].ended /\ tokens[k].access \in 0..AccessTTL
          /\ tokens'[k].access = Before(tokens[k].access)
      BY <1>0, <1>1, <2>1 DEF Token
    <3>2. tokens[k].access > 1 /\ tokens'[k].access = tokens[k].access - 1
      BY <2>1, <3>1, SessionAssumption DEF Before
    <3>3. denied.left > 0 /\ denied.age <= AccessTTL - tokens[k].access
      BY <3>1, <3>2 DEF SessionInv, EndedAreCovered
    <3>4. denied.age + denied.left = AccessTTL + Skew
      BY <3>3 DEF SessionInv, MarkerOutlives
    <3>. QED BY <1>0, <1>4, <3>1, <3>2, <3>3, <3>4, SessionAssumption
  <2>2. ASSUME NEW k \in Slots
        PROVE  /\ ~user'.active /\ tokens'[k].row # "absent"
                    => tokens'[k].ended \/ tokens'[k].stray
               /\ tokens'[k].ended /\ tokens'[k].row = "valid" => tokens'[k].refresh = 0
    <3>1. tokens[k].refresh = 0 => Before(tokens[k].refresh) = 0
      BY DEF Before
    <3>. QED BY <1>1, <1>3, <3>1 DEF SessionInv, EndedAreCovered
  <2>. QED BY <2>1, <2>2 DEF EndedAreCovered
<1>11. UsedDoNotMatch'
  BY <1>10 DEF UsedDoNotMatch
<1>. QED BY <1>5, <1>6, <1>7, <1>8, <1>9, <1>11 DEF SessionInv

THEOREM SessionInvariant == SessionsSpec => []SessionInv
<1>1. SessionInv /\ [SessionsNext]_sessionsVars => SessionInv'
  <2>1. SessionInv /\ SessionsNext => SessionInv'
    BY LoginKeeps, ReadKeeps, RotateKeeps, RevokingKeeps, PasswordsKeep, OthersKeep, TickKeeps
    DEF SessionsNext, SessionRequest, PasswordRequest
  <2>2. SessionInv /\ UNCHANGED sessionsVars => SessionInv'
    BY DEF SessionInv, SessionTypes, SlotsAreFree, MarkerOutlives, EndedAreCovered,
           OneRowPerLogin, UsedDoNotMatch, sessionsVars
  <2>. QED BY <2>1, <2>2
<1>. QED BY <1>1, SessionStarts, PTL DEF SessionsSpec

\* What a change of password, a reset or a deactivation ended stays ended,
\* whatever lifetimes tokens and marker have.
THEOREM EndedSessionsStayEnded == SessionsSpec => []EndedStaysEnded
<1>1. SessionInv => EndedStaysEnded
  <2> SUFFICES ASSUME SessionInv, NEW k \in Slots, tokens[k].ended \/ (~user.active /\ ~tokens[k].stray)
               PROVE  ~Accepted(k) /\ ~Valid(k)
    BY DEF EndedStaysEnded
  <2>1. tokens[k] \in Token /\ denied \in [age : Nat, left : Nat]
    BY DEF SessionInv, SessionTypes
  <2>2. CASE tokens[k].row = "absent"
    BY <2>1, <2>2, SessionAssumption DEF SessionInv, SlotsAreFree, Accepted, Valid
  <2>3. CASE tokens[k].row # "absent"
    <3>1. tokens[k].ended
      BY <2>3 DEF SessionInv, EndedAreCovered
    <3>2. /\ tokens[k].row = "valid" => tokens[k].refresh = 0
          /\ tokens[k].access > 0 => denied.left > 0 /\ denied.age <= AccessTTL - tokens[k].access
      BY <3>1 DEF SessionInv, EndedAreCovered
    <3>. QED BY <2>1, <3>2, SessionAssumption DEF Accepted, Revoked, Valid, Token
  <2>. QED BY <2>2, <2>3
<1>. QED BY <1>1, SessionInvariant, PTL

\* Rotation moves the one refresh token of a sign-in on.
THEOREM OneRefreshTokenPerLogin == SessionsSpec => []OneTokenPerLogin
<1>1. SessionInv => OneTokenPerLogin
  BY DEF SessionInv, OneRowPerLogin, OneTokenPerLogin, Valid
<1>. QED BY <1>1, SessionInvariant, PTL

\* A reset changes the password the link was issued against.
THEOREM ResetLinksWorkOnce == SessionsSpec => []LinksWorkOnce
<1>1. SessionInv => LinksWorkOnce
  BY DEF SessionInv, UsedDoNotMatch, LinksWorkOnce, LinkWorks
<1>. QED BY <1>1, SessionInvariant, PTL

-----------------------------------------------------------------------------
(* The throttle: how many wrong passwords fit into one window              *)

Checked == logins["checked"]
Opening == logins["opening"]
Locking == logins["locking"]
Clearing == logins["clearing"]
Count == failures.count
Ttl == failures.ttl
Guesses == Len(recent)

\* What the counter says, below the threshold; and who set the lock that holds.
Counted == IF Count < MaxFailures THEN Count ELSE MaxFailures - 1
Holding == IF lock > 0 THEN Clearing ELSE 0

\* What a former window, or the logins past the check of a former lock, leave.
Leftover == Larger(MaxFailures - 2, Parallel - 1)

\* All but the last few are of that age.
Old(ages, few, age) ==
    \A i \in 1..Len(ages) : i + few <= Len(ages) => ages[i] >= age

ThrottleShapes ==
    /\ failures \in [count : Nat, ttl : Int] /\ lock \in Int
    /\ logins \in [Stage -> Nat] /\ breaks \in Nat /\ recent \in Seq(Nat)

LoginsAreFew == Checked + Opening + Locking + Clearing <= Parallel

\* A failure counted beyond the threshold is about to set the lock, or has set
\* it and not cleared the counter yet, or has cost a connection; and all but the
\* last failures that the running window counted, and `lost` ones that were not
\* counted, were before its first one, or are it.
CounterStands(lost) ==
    /\ Count + lost <= MaxFailures - 1 + Locking + Holding + breaks
    /\ Ttl > 0 => Count > 0 /\ Old(recent, Count - 1 + lost, Window - Ttl)

CounterIsPaid == \E lost \in Nat : lost <= breaks /\ CounterStands(lost)

\* All there is, is as old as the lock, but for the logins past its check.
LockStopsGuesses ==
    lock > 0 => Checked <= Parallel - 1 /\ Old(recent, Parallel - 1 - Checked, Lockout - lock)

\* What is left over, and what the running window or the lock adds.
GuessesAreShared ==
    IF lock > 0
    THEN Guesses + Checked <= Leftover + MaxFailures - 1 + Parallel + breaks
    ELSE Guesses <= Leftover + Counted + Locking + breaks

ThrottleInv ==
    /\ ThrottleShapes /\ LoginsAreFew
    /\ CounterIsPaid /\ LockStopsGuesses /\ GuessesAreShared

\* The constants, as the arithmetic needs them.
LEMMA ThrottleConstants ==
    /\ MaxFailures \in Nat /\ MaxFailures >= 2 /\ Parallel \in Nat /\ Parallel >= 1
    /\ Window \in Nat /\ Window >= 1 /\ Lockout \in Nat /\ Lockout >= Window
    /\ Leftover \in Nat /\ Leftover >= MaxFailures - 2 /\ Leftover >= Parallel - 1
BY ThrottleAssumption DEF Leftover, Larger

\* The variables, as numbers.
LEMMA ThrottleNumbers ==
    ASSUME ThrottleShapes
    PROVE  /\ Count \in Nat /\ Ttl \in Int /\ lock \in Int /\ breaks \in Nat
           /\ Checked \in Nat /\ Opening \in Nat /\ Locking \in Nat /\ Clearing \in Nat
           /\ Guesses \in Nat /\ Holding \in Nat
           /\ Counted \in Nat /\ Counted <= MaxFailures - 1 /\ Counted <= Count
<1>1. /\ Count \in Nat /\ Ttl \in Int /\ lock \in Int /\ breaks \in Nat
      /\ Checked \in Nat /\ Opening \in Nat /\ Locking \in Nat /\ Clearing \in Nat
      /\ Guesses \in Nat
  BY DEF ThrottleShapes, Checked, Opening, Locking, Clearing, Count, Ttl, Guesses, Stage
<1>2. Holding \in Nat
  BY <1>1 DEF Holding
<1>3. Counted \in Nat /\ Counted <= MaxFailures - 1 /\ Counted <= Count
  BY <1>1, ThrottleConstants DEF Counted
<1>. QED BY <1>1, <1>2, <1>3

\* One more wrong password, one more of them spared.
LEMMA OneMoreSpared ==
    ASSUME NEW ages \in Seq(Nat), NEW few \in Nat, NEW age \in Int, Old(ages, few, age)
    PROVE  /\ Append(ages, 0) \in Seq(Nat) /\ Len(Append(ages, 0)) = Len(ages) + 1
           /\ Old(Append(ages, 0), few + 1, age)
<1>1. /\ Append(ages, 0) \in Seq(Nat) /\ Len(Append(ages, 0)) = Len(ages) + 1
      /\ \A i \in 1..Len(ages) : Append(ages, 0)[i] = ages[i]
      /\ Len(ages) \in Nat
  OBVIOUS
<1>2. ASSUME NEW i \in 1..(Len(ages) + 1), i + (few + 1) <= Len(ages) + 1
      PROVE  Append(ages, 0)[i] >= age
  <2>1. i \in 1..Len(ages) /\ i + few <= Len(ages)
    BY <1>1, <1>2
  <2>. QED BY <1>1, <2>1 DEF Old
<1>. QED BY <1>1, <1>2 DEF Old

\* Sparing more, or asking for less.
LEMMA OldIsOld ==
    ASSUME NEW ages \in Seq(Nat), NEW few \in Nat, NEW more \in Nat, few <= more,
           NEW age \in Int, NEW younger \in Int, younger <= age, Old(ages, few, age)
    PROVE  Old(ages, more, younger)
<1>1. ASSUME NEW i \in 1..Len(ages), i + more <= Len(ages)
      PROVE  ages[i] >= younger
  <2>1. Len(ages) \in Nat /\ ages[i] \in Nat
    OBVIOUS
  <2>2. ages[i] >= age
    BY <1>1, <2>1 DEF Old
  <2>. QED BY <2>1, <2>2
<1>. QED BY <1>1 DEF Old

LEMMA NewIsOld ==
    ASSUME NEW ages \in Seq(Nat), NEW few \in Nat
    PROVE  Old(ages, few, 0)
BY DEF Old

\* The logins past a check spare no more than Parallel - 1 wrong passwords.
LEMMA CheckedAreSpared ==
    ASSUME NEW ages \in Seq(Nat), NEW age \in Int,
           NEW c \in Nat, c <= Parallel - 1, Old(ages, Parallel - 1 - c, age)
    PROVE  /\ \A d \in Nat : d <= c => d <= Parallel - 1 /\ Old(ages, Parallel - 1 - d, age)
           /\ c > 0 => /\ c - 1 <= Parallel - 1
                       /\ Old(Append(ages, 0), Parallel - 1 - (c - 1), age)
<1>1. Parallel - 1 - c \in Nat
  BY ThrottleConstants
<1>2. ASSUME NEW d \in Nat, d <= c
      PROVE  d <= Parallel - 1 /\ Old(ages, Parallel - 1 - d, age)
  <2>1. /\ Parallel - 1 - d \in Nat /\ Parallel - 1 - c <= Parallel - 1 - d
        /\ d <= Parallel - 1
    BY <1>2, ThrottleConstants
  <2>2. age <= age
    OBVIOUS
  <2>. QED BY <1>1, <2>1, <2>2, OldIsOld
<1>3. Old(Append(ages, 0), (Parallel - 1 - c) + 1, age)
  BY <1>1, OneMoreSpared
<1>4. Parallel - 1 - (c - 1) = (Parallel - 1 - c) + 1 /\ c - 1 <= Parallel - 1
  BY ThrottleConstants
<1>. QED BY <1>2, <1>3, <1>4

\* A second later, all is a second older, and what was a Window old has gone.
LEMMA SecondAges ==
    ASSUME NEW ages \in Seq(Nat), NEW later, OneSecondOn(ages, later)
    PROVE  /\ later \in Seq(Nat) /\ Len(later) <= Len(ages)
           /\ \A few \in Nat, age \in Int : Old(ages, few, age) => Old(later, few, age + 1)
           /\ \A few \in Nat : Old(ages, few, Window - 1) => Len(later) <= few
<1>1. PICK gone \in 0..Len(ages) :
         /\ \A i \in (gone + 1)..Len(ages) : ages[i] + 1 < Window
         /\ later = [i \in 1..(Len(ages) - gone) |-> ages[i + gone] + 1]
  BY DEF OneSecondOn
<1>2. Len(ages) \in Nat /\ gone \in Nat /\ gone <= Len(ages) /\ Len(ages) - gone \in Nat
  BY <1>1
<1>3. \A i \in 1..(Len(ages) - gone) : i + gone \in 1..Len(ages) /\ ages[i + gone] + 1 \in Nat
  BY <1>2
<1>4. later \in [1..(Len(ages) - gone) -> Nat]
  BY <1>1, <1>3
<1>5. later \in Seq(Nat) /\ Len(later) = Len(ages) - gone
  <2>. DEFINE n == Len(ages) - gone
  <2>1. n \in Nat /\ later \in [1..n -> Nat]
    BY <1>2, <1>4
  <2>. HIDE DEF n
  <2>2. later \in Seq(Nat) /\ Len(later) = n
    BY <2>1
  <2>. QED BY <2>2 DEF n
<1>6. ASSUME NEW few \in Nat, NEW age \in Int, Old(ages, few, age)
      PROVE  Old(later, few, age + 1)
  <2>1. ASSUME NEW i \in 1..(Len(ages) - gone), i + few <= Len(ages) - gone
        PROVE  later[i] >= age + 1
    <3>1. i + gone \in 1..Len(ages) /\ (i + gone) + few <= Len(ages)
      BY <1>2, <2>1
    <3>2. ages[i + gone] >= age /\ ages[i + gone] \in Nat
      BY <1>6, <3>1 DEF Old
    <3>3. later[i] = ages[i + gone] + 1
      BY <1>1
    <3>. QED BY <3>2, <3>3
  <2>. QED BY <1>5, <2>1 DEF Old
<1>7. ASSUME NEW few \in Nat, Old(ages, few, Window - 1), ~(Len(later) <= few)
      PROVE  FALSE
  <2>1. /\ gone + 1 \in 1..Len(ages) /\ gone + 1 \in (gone + 1)..Len(ages)
        /\ (gone + 1) + few <= Len(ages)
    BY <1>2, <1>5, <1>7
  <2>2. ages[gone + 1] >= Window - 1 /\ ages[gone + 1] \in Nat
    BY <1>7, <2>1 DEF Old
  <2>3. ages[gone + 1] + 1 < Window
    BY <1>1, <2>1
  <2>. QED BY <2>2, <2>3, ThrottleConstants
<1>. QED BY <1>2, <1>5, <1>6, <1>7

\* Before the first failure, and after every login and reset.
Fresh ==
    /\ failures = NoCounter /\ lock = Gone /\ recent = <<>>
    /\ logins \in [Stage -> Nat] /\ breaks \in Nat /\ LoginsAreFew

LEMMA FreshThrottle == Fresh => ThrottleInv
<1>. SUFFICES ASSUME Fresh PROVE ThrottleInv
  OBVIOUS
<1>1. ThrottleShapes
  BY DEF Fresh, ThrottleShapes, NoCounter, Gone
<1>2. Count = 0 /\ ~(Ttl > 0) /\ ~(lock > 0) /\ Guesses = 0
  BY DEF Fresh, Count, Ttl, Guesses, NoCounter, Gone
<1>3. Counted = 0 /\ Holding = 0
  BY <1>2, ThrottleConstants DEF Counted, Holding
<1>4. CounterStands(0)
  <2>1. Count + 0 <= MaxFailures - 1 + Locking + Holding + breaks
    BY <1>1, <1>2, <1>3, ThrottleConstants, ThrottleNumbers
  <2>. QED BY <1>2, <2>1 DEF CounterStands
<1>5. CounterIsPaid /\ LockStopsGuesses
  <2>1. 0 <= breaks
    BY <1>1 DEF ThrottleShapes
  <2>. QED BY <1>2, <1>4, <2>1 DEF CounterIsPaid, LockStopsGuesses
<1>6. GuessesAreShared
  <2>1. Guesses <= Leftover + Counted + Locking + breaks
    BY <1>1, <1>2, <1>3, ThrottleConstants, ThrottleNumbers
  <2>. QED BY <1>2, <2>1 DEF GuessesAreShared
<1>. QED BY <1>1, <1>5, <1>6 DEF ThrottleInv, Fresh

LEMMA FreshAfter == Fresh' => ThrottleInv'
BY FreshThrottle, PTL

\* Requests that do not touch the throttle lose at most a connection.
LEMMA ThrottleAlone ==
    ASSUME ThrottleInv, UNCHANGED <<failures, lock, logins, recent>>,
           breaks' \in Nat, breaks' >= breaks
    PROVE  ThrottleInv'
<1>1. /\ Count' = Count /\ Ttl' = Ttl /\ Guesses' = Guesses /\ Checked' = Checked
      /\ Opening' = Opening /\ Locking' = Locking /\ Clearing' = Clearing
      /\ Counted' = Counted /\ Holding' = Holding
  BY DEF Count, Ttl, Guesses, Checked, Opening, Locking, Clearing, Counted, Holding
<1>2. ThrottleShapes' /\ LoginsAreFew'
  BY <1>1 DEF ThrottleInv, ThrottleShapes, LoginsAreFew
<1>3. PICK lost \in Nat : lost <= breaks /\ CounterStands(lost)
  BY DEF ThrottleInv, CounterIsPaid
<1>4. lost <= breaks' /\ CounterStands(lost)'
  BY <1>1, <1>3, ThrottleConstants, ThrottleNumbers DEF ThrottleInv, CounterStands
<1>5. LockStopsGuesses' /\ GuessesAreShared'
  BY <1>1, ThrottleConstants, ThrottleNumbers
  DEF ThrottleInv, LockStopsGuesses, GuessesAreShared
<1>. QED BY <1>2, <1>4, <1>5 DEF ThrottleInv, CounterIsPaid

\* A login passes the check of the lock.
LEMMA CheckKeeps ==
    ASSUME ThrottleInv, CheckLock
    PROVE  ThrottleInv'
<1>1. /\ ~(lock > 0) /\ UNCHANGED <<failures, lock, breaks, recent>>
      /\ logins' = [logins EXCEPT !["checked"] = @ + 1]
  BY DEF CheckLock, Locked
<1>2. /\ Count' = Count /\ Ttl' = Ttl /\ Guesses' = Guesses /\ Checked' = Checked + 1
      /\ Opening' = Opening /\ Locking' = Locking /\ Clearing' = Clearing
      /\ logins' \in [Stage -> Nat]
  BY <1>1 DEF ThrottleInv, ThrottleShapes, Stage, Count, Ttl, Guesses, Checked, Opening, Locking,
              Clearing
<1>3. Checked + Opening + Locking + Clearing < Parallel
  BY DEF CheckLock, UnderWay, Checked, Opening, Locking, Clearing
<1>4. LoginsAreFew'
  BY <1>2, <1>3, ThrottleConstants, ThrottleNumbers DEF ThrottleInv, LoginsAreFew
<1>5. ThrottleShapes'
  BY <1>1, <1>2 DEF ThrottleInv, ThrottleShapes
<1>6. Counted' = Counted /\ Holding' = Holding
  BY <1>1, <1>2 DEF Counted, Holding
<1>7. CounterIsPaid'
  BY <1>1, <1>2, <1>6 DEF ThrottleInv, CounterIsPaid, CounterStands
<1>8. LockStopsGuesses' /\ GuessesAreShared'
  BY <1>1, <1>2, <1>6 DEF ThrottleInv, LockStopsGuesses, GuessesAreShared
<1>. QED BY <1>4, <1>5, <1>7, <1>8 DEF ThrottleInv

\* A login breaks off: what it had yet to do, the lost connection pays for.
LEMMA BreakKeeps ==
    ASSUME ThrottleInv, NEW stage \in Stage, Break(stage)
    PROVE  ThrottleInv'
<1>0. ThrottleShapes /\ LoginsAreFew /\ LockStopsGuesses /\ GuessesAreShared
  BY DEF ThrottleInv
<1>1. /\ UNCHANGED <<failures, lock, recent>> /\ breaks' = breaks + 1
      /\ logins[stage] > 0 /\ logins' = [logins EXCEPT ![stage] = @ - 1]
  BY DEF Break
<1>2. logins' \in [Stage -> Nat] /\ ThrottleShapes'
  BY <1>0, <1>1 DEF ThrottleShapes
<1>3. /\ Count' = Count /\ Ttl' = Ttl /\ Guesses' = Guesses
      /\ Checked' \in Nat /\ Opening' \in Nat /\ Locking' \in Nat /\ Clearing' \in Nat
      /\ \/ Checked' = Checked - 1 /\ UNCHANGED <<Opening, Locking, Clearing>>
         \/ Opening' = Opening - 1 /\ UNCHANGED <<Checked, Locking, Clearing>>
         \/ Locking' = Locking - 1 /\ UNCHANGED <<Checked, Opening, Clearing>>
         \/ Clearing' = Clearing - 1 /\ UNCHANGED <<Checked, Opening, Locking>>
  BY <1>0, <1>1, <1>2
  DEF ThrottleShapes, Stage, Count, Ttl, Guesses, Checked, Opening, Locking, Clearing
<1>4. Checked' <= Checked /\ LoginsAreFew'
  <2>1. CASE Checked' = Checked - 1 /\ UNCHANGED <<Opening, Locking, Clearing>>
    BY <1>0, <2>1, ThrottleConstants, ThrottleNumbers DEF LoginsAreFew
  <2>2. CASE Opening' = Opening - 1 /\ UNCHANGED <<Checked, Locking, Clearing>>
    BY <1>0, <2>2, ThrottleConstants, ThrottleNumbers DEF LoginsAreFew
  <2>3. CASE Locking' = Locking - 1 /\ UNCHANGED <<Checked, Opening, Clearing>>
    BY <1>0, <2>3, ThrottleConstants, ThrottleNumbers DEF LoginsAreFew
  <2>4. CASE Clearing' = Clearing - 1 /\ UNCHANGED <<Checked, Opening, Locking>>
    BY <1>0, <2>4, ThrottleConstants, ThrottleNumbers DEF LoginsAreFew
  <2>. QED BY <1>3, <2>1, <2>2, <2>3, <2>4
<1>5. PICK lost \in Nat : lost <= breaks /\ CounterStands(lost)
  BY DEF ThrottleInv, CounterIsPaid
<1>6. lost <= breaks' /\ CounterStands(lost)'
  <2>1. Counted' = Counted /\ Holding' \in Nat /\ Locking + Holding <= Locking' + Holding' + 1
    BY <1>0, <1>1, <1>3, ThrottleNumbers DEF Counted, Holding
  <2>2. Count + lost <= MaxFailures - 1 + Locking + Holding + breaks
    BY <1>5 DEF CounterStands
  <2>3. Count' + lost <= MaxFailures - 1 + Locking' + Holding' + breaks' /\ lost <= breaks'
    BY <1>0, <1>1, <1>3, <1>5, <2>1, <2>2, ThrottleConstants, ThrottleNumbers
  <2>. QED BY <1>1, <1>3, <1>5, <2>3 DEF CounterStands
<1>7. LockStopsGuesses'
  <2>1. ASSUME lock > 0
        PROVE  Checked' <= Parallel - 1 /\ Old(recent, Parallel - 1 - Checked', Lockout - lock)
    <3>1. Checked <= Parallel - 1 /\ Old(recent, Parallel - 1 - Checked, Lockout - lock)
      BY <1>0, <2>1 DEF LockStopsGuesses
    <3>2. Checked \in Nat /\ Checked' \in Nat /\ Lockout - lock \in Int /\ recent \in Seq(Nat)
      BY <1>0, <1>3, ThrottleConstants, ThrottleNumbers DEF ThrottleShapes
    <3>. QED BY <1>4, <3>1, <3>2, CheckedAreSpared
  <2>. QED BY <1>1, <2>1 DEF LockStopsGuesses
<1>8. GuessesAreShared'
  <2>1. Counted' = Counted
    BY <1>3 DEF Counted
  <2>2. CASE lock > 0
    BY <1>0, <1>1, <1>3, <1>4, <2>2, ThrottleConstants, ThrottleNumbers DEF GuessesAreShared
  <2>3. CASE ~(lock > 0)
    BY <1>0, <1>1, <1>3, <2>1, <2>3, ThrottleConstants, ThrottleNumbers DEF GuessesAreShared
  <2>. QED BY <2>2, <2>3
<1>. QED BY <1>2, <1>4, <1>6, <1>7, <1>8 DEF ThrottleInv, CounterIsPaid

\* A wrong password that is counted, with what it has to do next.
LEMMA FailureKeeps ==
    ASSUME ThrottleInv, WrongPassword
    PROVE  ThrottleInv'
<1>0. ThrottleShapes /\ LoginsAreFew /\ LockStopsGuesses /\ GuessesAreShared
  BY DEF ThrottleInv
<1>1. /\ logins["checked"] > 0 /\ UNCHANGED <<lock, breaks>>
      /\ failures' = [count |-> failures.count + 1,
                      ttl |-> IF failures.count + 1 = 1 THEN Endless ELSE failures.ttl]
      /\ logins' = [s \in Stage |->
             logins[s] + (IF s \in NextStage(failures.count + 1) THEN 1 ELSE 0)
                       - (IF s = "checked" THEN 1 ELSE 0)]
      /\ recent' = Append(recent, 0)
  BY DEF WrongPassword
<1>2. /\ Count' = Count + 1 /\ Ttl' \in Int
      /\ Ttl' > 0 => Ttl' = Ttl /\ Count > 0
      /\ failures' \in [count : Nat, ttl : Int]
  <2>1. Count \in Nat /\ Ttl \in Int
    BY <1>0, ThrottleNumbers
  <2>2. failures' = [count |-> Count + 1, ttl |-> IF Count + 1 = 1 THEN Endless ELSE Ttl]
    BY <1>1 DEF Count, Ttl
  <2>3. Count' = Count + 1 /\ Ttl' = IF Count + 1 = 1 THEN Endless ELSE Ttl
    BY <2>2 DEF Count, Ttl
  <2>. QED BY <2>1, <2>2, <2>3 DEF Endless
<1>3. /\ Checked > 0 /\ Checked' = Checked - 1 /\ Clearing' = Clearing
      /\ Opening' = Opening + (IF "opening" \in NextStage(Count + 1) THEN 1 ELSE 0)
      /\ Locking' = Locking + (IF "locking" \in NextStage(Count + 1) THEN 1 ELSE 0)
  <2>1. "checked" \notin NextStage(Count + 1) /\ "clearing" \notin NextStage(Count + 1)
    BY DEF NextStage
  <2>2. logins' = [s \in Stage |->
             logins[s] + (IF s \in NextStage(Count + 1) THEN 1 ELSE 0)
                       - (IF s = "checked" THEN 1 ELSE 0)]
    BY <1>1 DEF Count
  <2>3. /\ logins["checked"] \in Nat /\ logins["opening"] \in Nat
        /\ logins["locking"] \in Nat /\ logins["clearing"] \in Nat
    BY <1>0 DEF ThrottleShapes, Stage
  <2>. QED BY <1>1, <2>1, <2>2, <2>3 DEF Stage, Checked, Opening, Locking, Clearing
<1>4. /\ Checked' \in Nat /\ Opening' \in Nat /\ Locking' \in Nat /\ Clearing' \in Nat
      /\ Opening' + Locking' <= Opening + Locking + 1 /\ Locking' >= Locking
      /\ Count + 1 >= MaxFailures => Locking' = Locking + 1
  <2>1. "opening" \in NextStage(Count + 1) => Count + 1 = 1
    BY DEF NextStage
  <2>2. "locking" \in NextStage(Count + 1) <=> Count + 1 >= MaxFailures
    BY <1>0, ThrottleConstants, ThrottleNumbers DEF NextStage
  <2>. QED BY <1>0, <1>3, <2>1, <2>2, ThrottleConstants, ThrottleNumbers
<1>5. LoginsAreFew'
  BY <1>0, <1>3, <1>4, ThrottleConstants, ThrottleNumbers DEF LoginsAreFew
<1>6. recent' \in Seq(Nat) /\ Guesses' = Guesses + 1
  BY <1>0, <1>1 DEF ThrottleShapes, Guesses
<1>7. ThrottleShapes'
  <2>1. \A s \in Stage : logins'[s] \in Nat
    BY <1>4 DEF Stage, Checked, Opening, Locking, Clearing
  <2>2. logins' \in [Stage -> Nat]
    BY <1>1, <2>1
  <2>. QED BY <1>0, <1>1, <1>2, <1>6, <2>2 DEF ThrottleShapes
<1>8. PICK lost \in Nat : lost <= breaks /\ CounterStands(lost)
  BY DEF ThrottleInv, CounterIsPaid
<1>9. CounterStands(lost)'
  <2>1. Holding' = Holding /\ breaks' = breaks
    BY <1>1, <1>3 DEF Holding
  <2>2. Count + lost <= MaxFailures - 1 + Locking + Holding + breaks
    BY <1>8 DEF CounterStands
  <2>3. Count' + lost <= MaxFailures - 1 + Locking' + Holding' + breaks'
    <3>1. CASE Count + 1 >= MaxFailures
      BY <1>0, <1>2, <1>4, <2>1, <2>2, <3>1, ThrottleConstants, ThrottleNumbers
    <3>2. CASE ~(Count + 1 >= MaxFailures)
      BY <1>0, <1>2, <1>4, <1>8, <2>1, <3>2, ThrottleConstants, ThrottleNumbers
    <3>. QED BY <3>1, <3>2
  <2>4. ASSUME Ttl' > 0
        PROVE  Count' > 0 /\ Old(recent', Count' - 1 + lost, Window - Ttl')
    <3>1. Ttl' = Ttl /\ Count > 0 /\ Old(recent, Count - 1 + lost, Window - Ttl)
      BY <1>2, <1>8, <2>4 DEF CounterStands
    <3>2. /\ Count - 1 + lost \in Nat /\ Window - Ttl \in Int /\ Count' > 0
          /\ Count' - 1 + lost = (Count - 1 + lost) + 1
      BY <1>0, <1>2, <3>1, ThrottleConstants, ThrottleNumbers
    <3>3. Old(recent', (Count - 1 + lost) + 1, Window - Ttl)
      BY <1>0, <1>1, <3>1, <3>2, OneMoreSpared DEF ThrottleShapes
    <3>. QED BY <3>1, <3>2, <3>3
  <2>. QED BY <2>3, <2>4 DEF CounterStands
<1>10. LockStopsGuesses'
  <2>1. ASSUME lock > 0
        PROVE  Checked' <= Parallel - 1 /\ Old(recent', Parallel - 1 - Checked', Lockout - lock)
    <3>1. Checked <= Parallel - 1 /\ Old(recent, Parallel - 1 - Checked, Lockout - lock)
      BY <1>0, <2>1 DEF LockStopsGuesses
    <3>2. Checked \in Nat /\ Lockout - lock \in Int /\ recent \in Seq(Nat)
      BY <1>0, ThrottleConstants, ThrottleNumbers DEF ThrottleShapes
    <3>. QED BY <1>1, <1>3, <3>1, <3>2, CheckedAreSpared
  <2>. QED BY <1>1, <2>1 DEF LockStopsGuesses
<1>11. lock' = lock /\ breaks' = breaks /\ Guesses' = Guesses + 1
  BY <1>1, <1>6
<1>12. GuessesAreShared'
  <2>1. CASE lock > 0
    BY <1>0, <1>3, <1>11, <2>1, ThrottleConstants, ThrottleNumbers DEF GuessesAreShared
  <2>2. CASE ~(lock > 0)
    <3>1. Counted' \in Nat /\ Counted' + Locking' >= Counted + Locking + 1
      BY <1>0, <1>2, <1>4, ThrottleConstants, ThrottleNumbers DEF Counted
    <3>. QED
      BY <1>0, <1>4, <1>11, <2>2, <3>1, ThrottleConstants, ThrottleNumbers
      DEF GuessesAreShared
  <2>. QED BY <2>1, <2>2
<1>. QED BY <1>1, <1>5, <1>7, <1>8, <1>9, <1>10, <1>12 DEF ThrottleInv, CounterIsPaid

\* A wrong password that is not counted has cost a connection.
LEMMA LostCountKeeps ==
    ASSUME ThrottleInv, CountIsLost
    PROVE  ThrottleInv'
<1>0. ThrottleShapes /\ LoginsAreFew /\ LockStopsGuesses /\ GuessesAreShared
  BY DEF ThrottleInv
<1>1. /\ logins["checked"] > 0 /\ UNCHANGED <<failures, lock>> /\ breaks' = breaks + 1
      /\ logins' = [logins EXCEPT !["checked"] = @ - 1]
      /\ recent' = Append(recent, 0)
  BY DEF CountIsLost
<1>2. /\ Count' = Count /\ Ttl' = Ttl /\ Checked > 0 /\ Checked' = Checked - 1
      /\ Opening' = Opening /\ Locking' = Locking /\ Clearing' = Clearing
      /\ logins' \in [Stage -> Nat]
  BY <1>0, <1>1
  DEF ThrottleShapes, Stage, Count, Ttl, Checked, Opening, Locking, Clearing
<1>3. LoginsAreFew'
  BY <1>0, <1>2, ThrottleConstants, ThrottleNumbers DEF LoginsAreFew
<1>4. recent' \in Seq(Nat) /\ Guesses' = Guesses + 1 /\ ThrottleShapes'
  BY <1>0, <1>1, <1>2 DEF ThrottleShapes, Guesses
<1>5. lock' = lock /\ breaks' = breaks + 1 /\ Checked' = Checked - 1 /\ Locking' = Locking
      /\ Count' = Count /\ Guesses' = Guesses + 1
  BY <1>1, <1>2, <1>4
<1>6. PICK lost \in Nat : lost <= breaks /\ CounterStands(lost)
  BY DEF ThrottleInv, CounterIsPaid
<1>7. lost + 1 \in Nat /\ lost + 1 <= breaks' /\ CounterStands(lost + 1)'
  <2>1. Count' + (lost + 1) <= MaxFailures - 1 + Locking' + Holding' + breaks'
    <3>1. Holding' = Holding
      BY <1>1, <1>2 DEF Holding
    <3>2. Count + lost <= MaxFailures - 1 + Locking + Holding + breaks
      BY <1>6 DEF CounterStands
    <3>. QED BY <1>0, <1>5, <3>1, <3>2, ThrottleConstants, ThrottleNumbers
  <2>2. ASSUME Ttl' > 0
        PROVE  Count' > 0 /\ Old(recent', Count' - 1 + (lost + 1), Window - Ttl')
    <3>1. Count > 0 /\ Old(recent, Count - 1 + lost, Window - Ttl)
      BY <1>2, <1>6, <2>2 DEF CounterStands
    <3>2. /\ Count - 1 + lost \in Nat /\ Window - Ttl \in Int
          /\ Count' - 1 + (lost + 1) = (Count - 1 + lost) + 1
      BY <1>0, <1>2, <3>1, ThrottleConstants, ThrottleNumbers
    <3>3. Old(recent', (Count - 1 + lost) + 1, Window - Ttl)
      BY <1>0, <1>1, <3>1, <3>2, OneMoreSpared DEF ThrottleShapes
    <3>. QED BY <1>2, <3>1, <3>2, <3>3
  <2>3. lost + 1 \in Nat /\ lost + 1 <= breaks'
    BY <1>0, <1>1, <1>6, ThrottleNumbers
  <2>. QED BY <2>1, <2>2, <2>3 DEF CounterStands
<1>8. LockStopsGuesses'
  <2>1. ASSUME lock > 0
        PROVE  Checked' <= Parallel - 1 /\ Old(recent', Parallel - 1 - Checked', Lockout - lock)
    <3>1. Checked <= Parallel - 1 /\ Old(recent, Parallel - 1 - Checked, Lockout - lock)
      BY <1>0, <2>1 DEF LockStopsGuesses
    <3>2. Checked \in Nat /\ Lockout - lock \in Int /\ recent \in Seq(Nat)
      BY <1>0, ThrottleConstants, ThrottleNumbers DEF ThrottleShapes
    <3>. QED BY <1>1, <1>2, <3>1, <3>2, CheckedAreSpared
  <2>. QED BY <1>1, <2>1 DEF LockStopsGuesses
<1>9. GuessesAreShared'
  <2>1. Counted' = Counted
    BY <1>2 DEF Counted
  <2>2. CASE lock > 0
    BY <1>0, <1>5, <2>2, ThrottleConstants, ThrottleNumbers DEF GuessesAreShared
  <2>3. CASE ~(lock > 0)
    BY <1>0, <1>5, <2>1, <2>3, ThrottleConstants, ThrottleNumbers DEF GuessesAreShared
  <2>. QED BY <2>2, <2>3
<1>. QED BY <1>3, <1>4, <1>7, <1>8, <1>9 DEF ThrottleInv, CounterIsPaid

\* The counter gets its time.
LEMMA OpeningKeeps ==
    ASSUME ThrottleInv, OpenWindow
    PROVE  ThrottleInv'
<1>0. ThrottleShapes /\ LoginsAreFew /\ LockStopsGuesses /\ GuessesAreShared
  BY DEF ThrottleInv
<1>1. /\ logins["opening"] > 0 /\ UNCHANGED <<lock, breaks, recent>>
      /\ logins' = [logins EXCEPT !["opening"] = @ - 1]
      /\ failures' = IF failures.count > 0 THEN [failures EXCEPT !.ttl = Window] ELSE failures
  BY DEF OpenWindow
<1>2. /\ Checked' = Checked /\ Locking' = Locking /\ Clearing' = Clearing
      /\ Opening' = Opening - 1 /\ Opening' \in Nat
      /\ logins' \in [Stage -> Nat]
  BY <1>0, <1>1 DEF ThrottleShapes, Stage, Checked, Opening, Locking, Clearing
<1>3. /\ Count' = Count /\ Ttl' = (IF Count > 0 THEN Window ELSE Ttl)
      /\ failures' \in [count : Nat, ttl : Int]
  <2>1. failures \in [count : Nat, ttl : Int] /\ Window \in Int
    BY <1>0, ThrottleConstants DEF ThrottleShapes
  <2>2. CASE Count > 0
    <3>1. failures' = [failures EXCEPT !.ttl = Window]
      BY <1>1, <2>2 DEF Count
    <3>. QED BY <2>1, <2>2, <3>1 DEF Count, Ttl
  <2>3. CASE ~(Count > 0)
    BY <1>1, <2>1, <2>3 DEF Count, Ttl
  <2>. QED BY <2>2, <2>3
<1>4. ThrottleShapes'
  BY <1>0, <1>1, <1>2, <1>3 DEF ThrottleShapes
<1>5. LoginsAreFew'
  BY <1>0, <1>2, ThrottleConstants, ThrottleNumbers DEF LoginsAreFew
<1>6. Counted' = Counted /\ Holding' = Holding /\ Guesses' = Guesses
  BY <1>1, <1>2, <1>3 DEF Counted, Holding, Guesses
<1>7. PICK lost \in Nat : lost <= breaks /\ CounterStands(lost)
  BY DEF ThrottleInv, CounterIsPaid
<1>8. CounterStands(lost)'
  <2>1. Count' + lost <= MaxFailures - 1 + Locking' + Holding' + breaks'
    BY <1>1, <1>2, <1>3, <1>6, <1>7 DEF CounterStands
  <2>2. CASE Count > 0
    <3>1. /\ Count - 1 + lost \in Nat /\ Window - Window = 0 /\ recent \in Seq(Nat)
      BY <1>0, <2>2, ThrottleConstants, ThrottleNumbers DEF ThrottleShapes
    <3>2. Old(recent, Count - 1 + lost, 0)
      BY <3>1, NewIsOld
    <3>. QED BY <1>1, <1>3, <2>1, <2>2, <3>1, <3>2 DEF CounterStands
  <2>3. CASE ~(Count > 0)
    BY <1>1, <1>3, <1>7, <2>1, <2>3 DEF CounterStands
  <2>. QED BY <2>2, <2>3
<1>9. LockStopsGuesses' /\ GuessesAreShared'
  BY <1>0, <1>1, <1>2, <1>6 DEF LockStopsGuesses, GuessesAreShared
<1>. QED BY <1>1, <1>4, <1>5, <1>7, <1>8, <1>9 DEF ThrottleInv, CounterIsPaid

\* The lock is set: whoever is past its check is one of the others.
LEMMA LockingKeeps ==
    ASSUME ThrottleInv, SetLock
    PROVE  ThrottleInv'
<1>0. ThrottleShapes /\ LoginsAreFew /\ LockStopsGuesses /\ GuessesAreShared
  BY DEF ThrottleInv
<1>1. /\ logins["locking"] > 0 /\ UNCHANGED <<failures, breaks, recent>> /\ lock' = Lockout
      /\ logins' = [logins EXCEPT !["locking"] = @ - 1, !["clearing"] = @ + 1]
  BY DEF SetLock
<1>2. /\ Checked' = Checked /\ Opening' = Opening /\ Locking > 0 /\ Locking' = Locking - 1
      /\ Clearing' = Clearing + 1 /\ Locking' \in Nat
      /\ logins' \in [Stage -> Nat]
  BY <1>0, <1>1 DEF ThrottleShapes, Stage, Checked, Opening, Locking, Clearing
<1>3. /\ Count' = Count /\ Ttl' = Ttl /\ Counted' = Counted /\ Guesses' = Guesses
      /\ breaks' = breaks
  BY <1>1 DEF Count, Ttl, Counted, Guesses
<1>4. ThrottleShapes'
  BY <1>0, <1>1, <1>2, ThrottleConstants DEF ThrottleShapes
<1>5. LoginsAreFew' /\ Checked <= Parallel - 1
  BY <1>0, <1>2, ThrottleConstants, ThrottleNumbers DEF LoginsAreFew
<1>6. lock' > 0 /\ Holding' = Clearing' /\ Holding <= Clearing
  BY <1>0, <1>1, ThrottleConstants, ThrottleNumbers DEF Holding
<1>7. PICK lost \in Nat : lost <= breaks /\ CounterStands(lost)
  BY DEF ThrottleInv, CounterIsPaid
<1>8. CounterStands(lost)'
  <2>1. Count + lost <= MaxFailures - 1 + Locking + Holding + breaks
    BY <1>7 DEF CounterStands
  <2>2. Count' + lost <= MaxFailures - 1 + Locking' + Holding' + breaks'
    BY <1>0, <1>2, <1>3, <1>6, <2>1, ThrottleConstants, ThrottleNumbers
  <2>. QED BY <1>1, <1>3, <1>7, <2>2 DEF CounterStands
<1>9. LockStopsGuesses'
  <2>1. Parallel - 1 - Checked \in Nat /\ Lockout - Lockout = 0 /\ recent \in Seq(Nat)
    BY <1>0, <1>5, ThrottleConstants, ThrottleNumbers DEF ThrottleShapes
  <2>2. Old(recent, Parallel - 1 - Checked, 0)
    BY <2>1, NewIsOld
  <2>. QED BY <1>1, <1>2, <1>5, <2>1, <2>2 DEF LockStopsGuesses
<1>10. GuessesAreShared'
  <2>1. Guesses' + Checked' <= Leftover + MaxFailures - 1 + Parallel + breaks'
    <3>1. CASE lock > 0
      BY <1>0, <1>2, <1>3, <3>1 DEF GuessesAreShared
    <3>2. CASE ~(lock > 0)
      <4>1. Locking + Checked <= Parallel
        BY <1>0, ThrottleConstants, ThrottleNumbers DEF LoginsAreFew
      <4>2. Guesses <= Leftover + Counted + Locking + breaks
        BY <1>0, <3>2 DEF GuessesAreShared
      <4>. QED BY <1>0, <1>2, <1>3, <4>1, <4>2, ThrottleConstants, ThrottleNumbers
    <3>. QED BY <3>1, <3>2
  <2>. QED BY <1>6, <2>1 DEF GuessesAreShared
<1>. QED BY <1>1, <1>4, <1>5, <1>7, <1>8, <1>9, <1>10 DEF ThrottleInv, CounterIsPaid

\* The counter goes.
LEMMA ClearingKeeps ==
    ASSUME ThrottleInv, ClearCounter
    PROVE  ThrottleInv'
<1>0. ThrottleShapes /\ LoginsAreFew /\ LockStopsGuesses /\ GuessesAreShared
  BY DEF ThrottleInv
<1>1. /\ logins["clearing"] > 0 /\ UNCHANGED <<lock, breaks>> /\ failures' = NoCounter
      /\ logins' = [logins EXCEPT !["clearing"] = @ - 1]
      /\ recent' = IF Locked THEN recent ELSE <<>>
  BY DEF ClearCounter
<1>2. /\ Checked' = Checked /\ Opening' = Opening /\ Locking' = Locking
      /\ Clearing' = Clearing - 1 /\ Clearing' \in Nat
      /\ logins' \in [Stage -> Nat]
  BY <1>0, <1>1 DEF ThrottleShapes, Stage, Checked, Opening, Locking, Clearing
<1>3. LoginsAreFew'
  BY <1>0, <1>2, ThrottleConstants, ThrottleNumbers DEF LoginsAreFew
<1>4. CASE ~(lock > 0)
  <2>1. Count' = 0 /\ ~(Ttl' > 0) /\ ~(lock' > 0) /\ Guesses' = 0 /\ ThrottleShapes'
    BY <1>0, <1>1, <1>2, <1>4
    DEF ThrottleShapes, Count, Ttl, Guesses, NoCounter, Gone, Locked
  <2>2. Counted' = 0 /\ Holding' = 0 /\ Locking' = Locking /\ breaks' = breaks
    BY <1>1, <1>2, <2>1, ThrottleConstants DEF Counted, Holding
  <2>3. CounterStands(0)'
    <3>1. Count' + 0 <= MaxFailures - 1 + Locking' + Holding' + breaks'
      BY <1>0, <2>1, <2>2, ThrottleConstants, ThrottleNumbers
    <3>. QED BY <2>1, <3>1 DEF CounterStands
  <2>4. GuessesAreShared'
    <3>1. Guesses' <= Leftover + Counted' + Locking' + breaks'
      BY <1>0, <2>1, <2>2, ThrottleConstants, ThrottleNumbers
    <3>. QED BY <2>1, <3>1 DEF GuessesAreShared
  <2>5. 0 <= breaks'
    BY <1>0, <2>2, ThrottleNumbers
  <2>. QED
    BY <1>3, <2>1, <2>3, <2>4, <2>5 DEF ThrottleInv, CounterIsPaid, LockStopsGuesses
<1>5. CASE lock > 0
  <2>1. /\ Count' = 0 /\ ~(Ttl' > 0) /\ lock' = lock /\ recent' = recent /\ breaks' = breaks
        /\ Guesses' = Guesses /\ ThrottleShapes'
    BY <1>0, <1>1, <1>2, <1>5
    DEF ThrottleShapes, Count, Ttl, Guesses, NoCounter, Gone, Locked
  <2>2. Holding' = Clearing'
    BY <1>5, <2>1 DEF Holding
  <2>3. CounterStands(0)'
    <3>1. lock' = lock /\ Count' = 0 /\ breaks' = breaks
      BY <2>1
    <3>2. Count' + 0 <= MaxFailures - 1 + Locking' + Holding' + breaks'
      BY <1>0, <1>2, <2>2, <3>1, ThrottleConstants, ThrottleNumbers
    <3>. QED BY <2>1, <3>2 DEF CounterStands
  <2>4. LockStopsGuesses' /\ GuessesAreShared'
    BY <1>0, <1>2, <1>5, <2>1 DEF LockStopsGuesses, GuessesAreShared
  <2>5. 0 <= breaks'
    BY <1>0, <2>1, ThrottleNumbers
  <2>. QED
    BY <1>3, <2>1, <2>3, <2>4, <2>5 DEF ThrottleInv, CounterIsPaid
<1>. QED BY <1>4, <1>5

\* A second later: a window that ends leaves the failures it counted, less the
\* first, and those it did not count; a lock that ends, what was past its check.
LEMMA SecondKeeps ==
    ASSUME ThrottleInv, ThrottleTick
    PROVE  ThrottleInv'
<1>0. ThrottleShapes /\ LoginsAreFew /\ LockStopsGuesses /\ GuessesAreShared
  BY DEF ThrottleInv
<1>1. /\ lock = 1 => logins["clearing"] = 0
      /\ failures' = IF failures.ttl = 1 THEN NoCounter ELSE [failures EXCEPT !.ttl = Less(@)]
      /\ lock' = Less(lock) /\ OneSecondOn(recent, recent') /\ UNCHANGED <<logins, breaks>>
  BY DEF ThrottleTick
<1>2. /\ Checked' = Checked /\ Opening' = Opening /\ Locking' = Locking /\ Clearing' = Clearing
      /\ breaks' = breaks
  BY <1>1 DEF Checked, Opening, Locking, Clearing
<1>3. /\ lock' \in Int
      /\ lock > 1 => lock' = lock - 1
      /\ ~(lock > 1) => ~(lock' > 0)
  BY <1>0, <1>1, ThrottleNumbers DEF Less, Gone
<1>4. /\ failures' \in [count : Nat, ttl : Int]
      /\ Ttl > 1 => Count' = Count /\ Ttl' = Ttl - 1
      /\ Ttl = 1 => Count' = 0 /\ ~(Ttl' > 0)
      /\ Ttl < 1 => Count' = Count /\ ~(Ttl' > 0)
  <2>1. Ttl \in Int /\ Count \in Nat
    BY <1>0, ThrottleNumbers
  <2>2. CASE Ttl = 1
    BY <1>1, <2>2 DEF Count, Ttl, NoCounter, Gone
  <2>3. CASE Ttl # 1
    <3>1. failures' = [failures EXCEPT !.ttl = Less(Ttl)]
      BY <1>1, <2>3 DEF Ttl
    <3>2. failures' \in [count : Nat, ttl : Int] /\ Count' = Count /\ Ttl' = Less(Ttl)
      BY <1>0, <2>1, <2>3, <3>1 DEF ThrottleShapes, Count, Ttl, Less
    <3>. QED BY <2>1, <2>3, <3>2 DEF Less
  <2>. QED BY <2>2, <2>3
<1>5. /\ recent' \in Seq(Nat) /\ Guesses' \in Nat /\ Guesses' <= Guesses
  BY <1>0, <1>1, SecondAges DEF ThrottleShapes, Guesses
<1>6. Guesses' \in Nat /\ Guesses' <= Guesses
  BY <1>5
<1>7. /\ \A few \in Nat, age \in Int : Old(recent, few, age) => Old(recent', few, age + 1)
      /\ \A few \in Nat : Old(recent, few, Window - 1) => Guesses' <= few
  BY <1>0, <1>1, SecondAges DEF ThrottleShapes, Guesses
<1>8. ThrottleShapes'
  BY <1>0, <1>1, <1>3, <1>4, <1>5 DEF ThrottleShapes
<1>9. LoginsAreFew'
  BY <1>0, <1>2 DEF LoginsAreFew
<1>10. PICK lost \in Nat : lost <= breaks /\ CounterStands(lost)
  BY DEF ThrottleInv, CounterIsPaid
<1>11. Count' \in Nat /\ Count' <= Count
  BY <1>0, <1>4, ThrottleNumbers
<1>12. Holding' = Holding
  <2>1. lock > 1 \/ lock = 1 \/ ~(lock > 0)
    BY <1>0, ThrottleNumbers
  <2>2. lock = 1 => Clearing = 0
    BY <1>1 DEF Clearing
  <2>3. lock > 1 => lock > 0 /\ lock' > 0
    BY <1>0, <1>3, ThrottleNumbers
  <2>4. ~(lock > 0) => ~(lock > 1)
    BY <1>0, ThrottleNumbers
  <2>. QED BY <1>2, <1>3, <2>1, <2>2, <2>3, <2>4 DEF Holding
<1>13. CounterStands(lost)'
  <2>1. Count + lost <= MaxFailures - 1 + Locking + Holding + breaks
    BY <1>10 DEF CounterStands
  <2>2. Count' + lost <= MaxFailures - 1 + Locking' + Holding' + breaks'
    BY <1>0, <1>2, <1>11, <1>12, <2>1, ThrottleConstants, ThrottleNumbers
  <2>3. ASSUME Ttl' > 0
        PROVE  Count' > 0 /\ Old(recent', Count' - 1 + lost, Window - Ttl')
    <3>1. Ttl > 1 /\ Count' = Count /\ Ttl' = Ttl - 1 /\ Ttl \in Int /\ Count \in Nat
      BY <1>0, <1>4, <2>3, ThrottleNumbers
    <3>2. Count > 0 /\ Old(recent, Count - 1 + lost, Window - Ttl)
      BY <1>10, <3>1 DEF CounterStands
    <3>3. /\ Count - 1 + lost \in Nat /\ Window - Ttl \in Int
          /\ Window - (Ttl - 1) = (Window - Ttl) + 1
      BY <3>1, <3>2, ThrottleConstants
    <3>4. Old(recent', Count - 1 + lost, (Window - Ttl) + 1)
      BY <1>7, <3>2, <3>3
    <3>. QED BY <3>1, <3>2, <3>3, <3>4
  <2>. QED BY <2>2, <2>3 DEF CounterStands
<1>14. LockStopsGuesses'
  <2>1. ASSUME lock' > 0
        PROVE  Checked' <= Parallel - 1 /\ Old(recent', Parallel - 1 - Checked', Lockout - lock')
    <3>1. lock > 1 /\ lock' = lock - 1 /\ lock \in Int
      BY <1>0, <1>3, <2>1, ThrottleNumbers
    <3>2. Checked <= Parallel - 1 /\ Old(recent, Parallel - 1 - Checked, Lockout - lock)
      BY <1>0, <3>1 DEF LockStopsGuesses
    <3>3. /\ Parallel - 1 - Checked \in Nat /\ Lockout - lock \in Int
          /\ Lockout - (lock - 1) = (Lockout - lock) + 1
      <4>1. Checked \in Nat /\ Checked <= Parallel - 1
        BY <1>0, <3>2, ThrottleNumbers
      <4>. QED BY <3>1, <4>1, ThrottleConstants
    <3>4. Old(recent', Parallel - 1 - Checked, (Lockout - lock) + 1)
      BY <1>7, <3>2, <3>3
    <3>. QED BY <1>2, <3>1, <3>2, <3>3, <3>4
  <2>. QED BY <2>1 DEF LockStopsGuesses
<1>15. GuessesAreShared'
  <2>1. Counted' \in Nat
    BY <1>11, ThrottleConstants DEF Counted
  <2>2. CASE lock > 1
    <3>1. lock' > 0 /\ lock > 0
      BY <1>0, <1>3, <2>2, ThrottleNumbers
    <3>2. Guesses + Checked <= Leftover + MaxFailures - 1 + Parallel + breaks
      BY <1>0, <3>1 DEF GuessesAreShared
    <3>3. Guesses' + Checked' <= Leftover + MaxFailures - 1 + Parallel + breaks'
      BY <1>0, <1>2, <1>6, <3>2, ThrottleConstants, ThrottleNumbers
    <3>. QED BY <3>1, <3>3 DEF GuessesAreShared
  <2>3. CASE lock = 1
    <3>1. ~(lock' > 0)
      BY <1>3, <2>3
    <3>2. Checked <= Parallel - 1 /\ Old(recent, Parallel - 1 - Checked, Lockout - 1)
      BY <1>0, <2>3 DEF LockStopsGuesses
    <3>3. Checked \in Nat /\ Checked <= Parallel - 1
      BY <1>0, <3>2, ThrottleNumbers
    <3>4. /\ Parallel - 1 - Checked \in Nat /\ Parallel - 1 - Checked <= Leftover
          /\ Parallel - 1 - Checked <= Parallel - 1 - Checked
          /\ Lockout - 1 \in Int /\ Window - 1 \in Int /\ Window - 1 <= Lockout - 1
      BY <3>3, ThrottleConstants
    <3>5. Old(recent, Parallel - 1 - Checked, Window - 1)
      BY <1>0, <3>2, <3>4, OldIsOld DEF ThrottleShapes
    <3>6. Guesses' <= Parallel - 1 - Checked
      BY <1>7, <3>4, <3>5
    <3>7. Guesses' <= Leftover + Counted' + Locking' + breaks'
      <4>1. Guesses' <= Leftover
        BY <1>6, <3>3, <3>4, <3>6, ThrottleConstants
      <4>. QED BY <1>0, <1>2, <1>6, <2>1, <4>1, ThrottleConstants, ThrottleNumbers
    <3>. QED BY <3>1, <3>7 DEF GuessesAreShared
  <2>4. CASE ~(lock > 0)
    <3>1. ~(lock' > 0)
      BY <1>0, <1>3, <2>4, ThrottleNumbers
    <3>2. Guesses <= Leftover + Counted + Locking + breaks
      BY <1>0, <2>4 DEF GuessesAreShared
    <3>3. CASE Ttl # 1
      <4>1. Counted' = Counted
        BY <1>0, <1>4, <3>3, ThrottleNumbers DEF Counted
      <4>2. Guesses' <= Leftover + Counted' + Locking' + breaks'
        BY <1>0, <1>2, <1>6, <3>2, <4>1, ThrottleConstants, ThrottleNumbers
      <4>. QED BY <3>1, <4>2 DEF GuessesAreShared
    <3>4. CASE Ttl = 1
      <4>1. /\ Count > 0 /\ Old(recent, Count - 1 + lost, Window - 1)
            /\ Count + lost <= MaxFailures - 1 + Locking + Holding + breaks
        BY <1>10, <3>4 DEF CounterStands
      <4>2. Count - 1 + lost \in Nat
        BY <1>0, <4>1, ThrottleNumbers
      <4>3. Guesses' <= Count - 1 + lost
        BY <1>7, <4>1, <4>2
      <4>4. Holding = 0 /\ Count > 0 /\ Count + lost <= MaxFailures - 1 + Locking + Holding + breaks
        BY <2>4, <4>1 DEF Holding
      <4>5. Guesses' <= Leftover + Counted' + Locking' + breaks'
        BY <1>0, <1>2, <1>6, <2>1, <4>3, <4>4, ThrottleConstants, ThrottleNumbers
      <4>. QED BY <3>1, <4>5 DEF GuessesAreShared
    <3>. QED BY <3>3, <3>4
  <2>5. lock > 1 \/ lock = 1 \/ ~(lock > 0)
    BY <1>0, ThrottleNumbers
  <2>. QED BY <2>2, <2>3, <2>4, <2>5
<1>16. CounterIsPaid'
  BY <1>2, <1>10, <1>13 DEF CounterIsPaid
<1>. QED BY <1>8, <1>9, <1>14, <1>15, <1>16 DEF ThrottleInv

\* A right password answers a login past the check, and forgives.
LEMMA ForgivingKeeps ==
    ASSUME ThrottleInv, NEW k \in Slots, Login(k)
    PROVE  ThrottleInv'
<1>0. ThrottleShapes /\ LoginsAreFew
  BY DEF ThrottleInv
<1>1. /\ failures' = NoCounter /\ lock' = Gone /\ recent' = <<>>
      /\ logins["checked"] > 0 /\ logins' = [logins EXCEPT !["checked"] = @ - 1]
  BY DEF Login, ResetThrottle
<1>2. breaks' \in Nat
  <2>1. RolledBack \/ UNCHANGED breaks
    BY DEF Login
  <2>. QED BY <1>0, <2>1 DEF RolledBack, ThrottleShapes
<1>3. /\ Checked' = Checked - 1 /\ Opening' = Opening /\ Locking' = Locking
      /\ Clearing' = Clearing /\ Checked' \in Nat /\ logins' \in [Stage -> Nat]
  BY <1>0, <1>1 DEF ThrottleShapes, Stage, Checked, Opening, Locking, Clearing
<1>4. LoginsAreFew'
  BY <1>0, <1>3, ThrottleConstants, ThrottleNumbers DEF LoginsAreFew
<1>5. Fresh'
  BY <1>1, <1>2, <1>3, <1>4 DEF Fresh
<1>. QED BY <1>5, FreshAfter

\* Every step of the sign-ins is one of these for the throttle.
LEMMA ThrottleKeeps ==
    ASSUME ThrottleInv, [SessionsNext]_sessionsVars
    PROVE  ThrottleInv'
<1>0. ThrottleShapes /\ LoginsAreFew /\ breaks \in Nat
  BY DEF ThrottleInv, ThrottleShapes
<1>1. CASE UNCHANGED throttleVars
  <2>1. breaks' \in Nat /\ breaks' >= breaks
    BY <1>0, <1>1 DEF throttleVars
  <2>. QED BY <1>1, <2>1, ThrottleAlone DEF throttleVars
<1>2. ASSUME RolledBack \/ UNCHANGED breaks
      PROVE  breaks' \in Nat /\ breaks' >= breaks
  BY <1>0, <1>2 DEF RolledBack
<1>3. ASSUME NEW l \in resetLinks, ResetPassword(l)
      PROVE  ThrottleInv'
  <2>1. /\ failures' = NoCounter /\ lock' = Gone /\ recent' = <<>> /\ logins' = logins
        /\ RolledBack \/ UNCHANGED breaks
    BY <1>3 DEF ResetPassword, ResetThrottle
  <2>2. logins' \in [Stage -> Nat] /\ LoginsAreFew'
    BY <1>0, <2>1
    DEF ThrottleShapes, LoginsAreFew, Checked, Opening, Locking, Clearing
  <2>3. Fresh'
    BY <1>2, <2>1, <2>2 DEF Fresh
  <2>. QED BY <2>3, FreshAfter
<1>4. ASSUME NEW k \in Slots, ChangePassword(k)
      PROVE  ThrottleInv'
  BY <1>2, <1>4, ThrottleAlone DEF ChangePassword
<1>5. CASE Deactivate
  BY <1>2, <1>5, ThrottleAlone DEF Deactivate
<1>6. CASE OtherLogin
  BY <1>6, CheckKeeps, FailureKeeps, LostCountKeeps, OpeningKeeps, LockingKeeps, ClearingKeeps,
     BreakKeeps
  DEF OtherLogin, ThrottleStep
<1>7. CASE Tick
  BY <1>7, SecondKeeps DEF Tick
<1>8. CASE UNCHANGED sessionsVars
  BY <1>1, <1>8 DEF sessionsVars
<1>. QED
  BY <1>1, <1>3, <1>4, <1>5, <1>6, <1>7, <1>8, ForgivingKeeps
  DEF SessionsNext, SessionRequest, PasswordRequest, ReadToken, Rotate, RefreshAgain, Logout,
      ForgotPassword, SendResetMail, Reactivate, Unthrottled

\* Whatever the limit, the window and the lock are, however many logins race
\* and whatever connections they lose between their commands, one window takes
\* few wrong passwords.
THEOREM GuessesStayFew == SessionsSpec => []GuessesAreFew
<1>1. SessionsInit => ThrottleInv
  <2>1. ASSUME SessionsInit PROVE Fresh
    <3>1. /\ failures = NoCounter /\ lock = Gone /\ recent = <<>> /\ breaks = 0
          /\ logins = [s \in Stage |-> 0]
      BY <2>1 DEF SessionsInit, ThrottleInit
    <3>2. Checked = 0 /\ Opening = 0 /\ Locking = 0 /\ Clearing = 0
      BY <3>1 DEF Stage, Checked, Opening, Locking, Clearing
    <3>3. logins \in [Stage -> Nat] /\ LoginsAreFew
      BY <3>1, <3>2, ThrottleConstants DEF LoginsAreFew
    <3>. QED BY <3>1, <3>3 DEF Fresh
  <2>. QED BY <2>1, FreshThrottle
<1>2. ThrottleInv => GuessesAreFew
  <2>1. ASSUME ThrottleInv
        PROVE  Guesses <= MaxFailures - 1 + Leftover + Parallel + breaks
    <3>0. ThrottleShapes /\ LoginsAreFew
      BY <2>1 DEF ThrottleInv
    <3>1. CASE lock > 0
      BY <2>1, <3>0, <3>1, ThrottleConstants, ThrottleNumbers DEF ThrottleInv, GuessesAreShared
    <3>2. CASE ~(lock > 0)
      <4>1. Locking <= Parallel
        BY <3>0, ThrottleConstants, ThrottleNumbers DEF LoginsAreFew
      <4>2. Guesses <= Leftover + Counted + Locking + breaks
        BY <2>1, <3>2 DEF ThrottleInv, GuessesAreShared
      <4>. QED BY <3>0, <4>1, <4>2, ThrottleConstants, ThrottleNumbers
    <3>. QED BY <3>1, <3>2
  <2>. QED BY <2>1 DEF GuessesAreFew, Guesses, Leftover
<1>. QED
  BY <1>1, <1>2, ThrottleKeeps, PTL DEF SessionsSpec
=============================================================================
