------------------------------ MODULE Sessions ------------------------------
(***************************************************************************)
(* Sign-in sessions of one user: access tokens (stateless, refused through *)
(* a denylist marker in Redis), refresh tokens (rows, rotated), reset      *)
(* links bound to the password, and the login throttle.                    *)
(*                                                                         *)
(* Logins race each other up to their answer, and refreshes between their  *)
(* read and their commit; the answer of a login and every other request is *)
(* one step.  The database commits or rolls back after the handler; what   *)
(* was written to Redis stays.  Time is what is left of each token, so a   *)
(* token's issue time is its full lifetime minus that.                     *)
(***************************************************************************)
EXTENDS LoginThrottle, FiniteSets

CONSTANTS
    Slots,        \* tokens alive at a time
    AccessTTL,    \* access_token_expire_minutes
    RefreshTTL,   \* refresh_token_expire_days
    Skew,         \* the denylist's clock-skew buffer
    LinkTTL,      \* lifetime of a reset link
    MaxLinks      \* reset links and unsent reset mails at a time

ASSUME SessionAssumption ==
    /\ AccessTTL \in Nat \ {0} /\ RefreshTTL \in Nat /\ RefreshTTL > AccessTTL
    /\ Skew \in Nat \ {0} /\ LinkTTL \in Nat \ {0} /\ MaxLinks \in Nat
    /\ IsFiniteSet(Slots)

VARIABLES
    user,        \* auth.users
    tokens,      \* a refresh token and the access token issued with it
    reading,     \* refreshes that have read the token and not rotated it yet
    denied,      \* denylist:user:<id>: age of the cutoff, and what is left of it
    resetLinks,  \* in somebody's mailbox
    resetMails   \* send_password_reset_email tasks not run yet

sessionsVars == <<user, tokens, reading, denied, resetLinks, resetMails, throttleVars>>

Token ==
    [row : {"absent", "valid", "revoked"}, access : 0..AccessTTL, refresh : 0..RefreshTTL,
     login : Slots, ended : BOOLEAN, stray : BOOLEAN]
ResetLink == [matches : BOOLEAN, left : 1..LinkTTL, used : BOOLEAN]

\* `login` is the sign-in a token descends from, named by its first slot; `ended`
\* says that the user's sessions were ended since; `stray` that the token comes
\* from a refresh that was overtaken between its read and its commit, which
\* counts as a sign-in of its own (all history).  `matches` is the fingerprint.
NoToken(k) ==
    [row |-> "absent", access |-> 0, refresh |-> 0, login |-> k, ended |-> FALSE,
     stray |-> FALSE]
NoMarker == [age |-> 0, left |-> 0]

SessionsTypeOK ==
    /\ ThrottleTypeOK
    /\ user \in [active : BOOLEAN, mustChange : BOOLEAN, loggedIn : BOOLEAN]
    /\ tokens \in [Slots -> Token]
    /\ reading \in [Slots -> 0..Parallel]
    /\ denied \in [age : 0..(AccessTTL + Skew), left : 0..(AccessTTL + Skew)]
    /\ resetLinks \subseteq ResetLink
    /\ resetMails \in 0..MaxLinks

\* A staff user just created, with the password of the welcome mail.
SessionsInit ==
    /\ ThrottleInit
    /\ user = [active |-> TRUE, mustChange |-> TRUE, loggedIn |-> FALSE]
    /\ tokens = [k \in Slots |-> NoToken(k)]
    /\ reading = [k \in Slots |-> 0]
    /\ denied = NoMarker
    /\ resetLinks = {}
    /\ resetMails = 0

-----------------------------------------------------------------------------
(* Tokens *)

\* Mutant of Revoked: a token minted in the second of the revocation lives.
MutRevokedStrictly(k) == denied.left > 0 /\ AccessTTL - tokens[k].access > denied.age

\* is_user_revoked: issued at or before the cutoff.
Revoked(k) == denied.left > 0 /\ AccessTTL - tokens[k].access >= denied.age

\* get_current_user: unexpired and not denied (the user's row is not looked at).
Accepted(k) == tokens[k].access > 0 /\ ~Revoked(k)

\* get_valid_by_hash
Valid(k) == tokens[k].row = "valid" /\ tokens[k].refresh > 0

\* revoke_user
MarkerSet == [age |-> 0, left |-> AccessTTL + Skew]

\* create_access_token, create_refresh_token
NewToken(login, stray) ==
    [row |-> "valid", access |-> AccessTTL, refresh |-> RefreshTTL, login |-> login,
     ended |-> FALSE, stray |-> stray]

\* A sign-in no token descends from.
Unnamed(k) == \A j \in Slots : tokens[j].row # "absent" => tokens[j].login # k

\* _issue_tokens: a new row and a new access token, in the slot k.
Issued(ts, k, login, stray) == [ts EXCEPT ![k] = NewToken(login, stray)]

Free == {k \in Slots : tokens[k].row = "absent"}

RevokeRow(ts, k) == [ts EXCEPT ![k].row = "revoked"]

\* revoke_all_by_user_id
AllRevoked(ts) ==
    [k \in Slots |-> IF ts[k].row = "valid" /\ ts[k].refresh > 0
                     THEN [ts[k] EXCEPT !.row = "revoked"] ELSE ts[k]]

\* The user's sessions end here (history).
Ended(ts) == [k \in Slots |-> [ts[k] EXCEPT !.ended = ts[k].row # "absent"]]

-----------------------------------------------------------------------------
(* Requests *)

Unthrottled == UNCHANGED throttleVars

\* Something breaks after Redis was written and before the commit.
RolledBack ==
    /\ breaks < MaxBreaks
    /\ breaks' = breaks + 1
    /\ UNCHANGED <<user, tokens, resetLinks, resetMails>>

\* The password hash changes: no link matches it any more.
NewPassword == resetLinks' = {[l EXCEPT !.matches = FALSE] : l \in resetLinks}

\* POST /login, past the lock check, with the right password of an active
\* account.
Login(k) ==
    /\ logins["checked"] > 0
    /\ logins' = [logins EXCEPT !["checked"] = @ - 1]
    /\ user.active
    /\ k \in Free
    /\ ResetThrottle
    /\ UNCHANGED <<denied, reading>>
    /\ \/ /\ Unnamed(k)
          /\ tokens' = Issued(tokens, k, k, FALSE)
          /\ user' = [user EXCEPT !.loggedIn = TRUE]
          /\ UNCHANGED <<resetLinks, resetMails, breaks>>
       \/ RolledBack

\* POST /login otherwise: a wrong password, no such active account, or cut off.
OtherLogin == ThrottleStep /\ UNCHANGED <<user, tokens, reading, denied, resetLinks, resetMails>>

\* POST /refresh, to the read of the token's row and of the user's.
ReadToken(k) ==
    /\ Valid(k) /\ user.active
    /\ reading[k] < Parallel
    /\ reading' = [reading EXCEPT ![k] = @ + 1]
    /\ UNCHANGED <<user, tokens, denied, resetLinks, resetMails>> /\ Unthrottled

\* Mutant of Rotated: the presented token is not revoked.
MutRotatedKeepsOld(k) == tokens

\* revoke: by id, whatever became of the row since.
Rotated(k) == RevokeRow(tokens, k)

\* Rotated, logged out or ended since it was read.
Overtaken(k) == tokens[k].row # "valid" \/ tokens[k].ended \/ ~user.active

\* POST /refresh, from there to the commit.
Rotate(k, j) ==
    /\ reading[k] > 0 /\ j \in Free
    /\ reading' = [reading EXCEPT ![k] = @ - 1]
    /\ \/ ~Overtaken(k) /\ tokens' = Issued(Rotated(k), j, tokens[k].login, FALSE)
       \/ Overtaken(k) /\ Unnamed(j) /\ tokens' = Issued(Rotated(k), j, j, TRUE)
    /\ UNCHANGED <<user, denied, resetLinks, resetMails>> /\ Unthrottled

\* POST /refresh with a token already rotated away: the access tokens are
\* denied; the rows it revokes are rolled back with the 401.
RefreshAgain(k) ==
    /\ tokens[k].row = "revoked" /\ tokens[k].refresh > 0
    /\ denied' = MarkerSet
    /\ UNCHANGED <<user, tokens, reading, resetLinks, resetMails>> /\ Unthrottled

\* POST /logout
Logout(k) ==
    /\ Valid(k)
    /\ tokens' = RevokeRow(tokens, k)
    /\ UNCHANGED <<user, reading, denied, resetLinks, resetMails>> /\ Unthrottled

\* POST /me/change-password, with the current password and another one.
ChangePassword(k) ==
    /\ Accepted(k) /\ user.active
    /\ denied' = MarkerSet
    /\ UNCHANGED <<failures, lock, logins, recent, reading>>
    /\ \/ /\ tokens' = Ended(AllRevoked(tokens))
          /\ user' = [user EXCEPT !.mustChange = FALSE]
          /\ NewPassword
          /\ UNCHANGED <<resetMails, breaks>>
       \/ RolledBack

\* get_user_for_password_reset: the user has confirmed the address.
MayReset == user.active

\* POST /forgot-password
ForgotPassword ==
    /\ MayReset
    /\ resetMails + Cardinality(resetLinks) < MaxLinks
    /\ resetMails' = resetMails + 1
    /\ UNCHANGED <<user, tokens, reading, denied, resetLinks>> /\ Unthrottled

\* _send_password_reset_email: mints a link for the password of now.
SendResetMail ==
    /\ resetMails > 0
    /\ resetMails' = resetMails - 1
    /\ resetLinks' = IF user.active
                THEN resetLinks \cup {[matches |-> TRUE, left |-> LinkTTL, used |-> FALSE]}
                ELSE resetLinks
    /\ UNCHANGED <<user, tokens, reading, denied>> /\ Unthrottled

\* Mutant of LinkWorks: the fingerprint is not compared.
MutLinkWorksUnbound(l) == user.active

\* reset_password: the link was issued against the present password.
LinkWorks(l) == user.active /\ l.matches

\* POST /reset-password
ResetPassword(l) ==
    /\ LinkWorks(l)
    /\ denied' = MarkerSet
    /\ ResetThrottle
    /\ UNCHANGED <<logins, reading>>
    /\ \/ /\ tokens' = Ended(AllRevoked(tokens))
          /\ user' = [user EXCEPT !.mustChange = FALSE]
          /\ resetLinks' = {[x EXCEPT !.matches = FALSE] : x \in resetLinks \ {l}}
                        \cup {[l EXCEPT !.matches = FALSE, !.used = TRUE]}
          /\ UNCHANGED <<resetMails, breaks>>
       \/ RolledBack

\* PATCH /users/{id} with is_active false, by somebody else.
Deactivate ==
    /\ user.active
    /\ denied' = MarkerSet
    /\ UNCHANGED <<failures, lock, logins, recent, reading>>
    /\ \/ /\ tokens' = Ended(AllRevoked(tokens))
          /\ user' = [user EXCEPT !.active = FALSE]
          /\ UNCHANGED <<resetLinks, resetMails, breaks>>
       \/ RolledBack

\* PATCH /users/{id} with is_active true: somebody who never got past the
\* welcome mail gets another one, with another password.
Reactivate ==
    /\ ~user.active
    /\ user' = [user EXCEPT !.active = TRUE]
    /\ IF user.mustChange /\ ~user.loggedIn THEN NewPassword ELSE UNCHANGED resetLinks
    /\ UNCHANGED <<tokens, reading, denied, resetMails>> /\ Unthrottled

\* The marker one second later.
Aged(m) == IF m.left <= 1 THEN NoMarker ELSE [age |-> m.age + 1, left |-> m.left - 1]

Before(n) == IF n > 0 THEN n - 1 ELSE 0

OlderToken(k) ==
    LET t == [tokens[k] EXCEPT !.access = Before(@), !.refresh = Before(@)]
    IN  IF t.refresh = 0 /\ reading[k] = 0 THEN NoToken(k) ELSE t

Tick ==
    /\ tokens' = [k \in Slots |-> OlderToken(k)]
    /\ denied' = Aged(denied)
    /\ resetLinks' = {[l EXCEPT !.left = @ - 1] : l \in {x \in resetLinks : x.left > 1}}
    /\ UNCHANGED <<user, reading, resetMails>>
    /\ ThrottleTick

SessionRequest ==
    \/ \E k \in Slots :
          \/ Login(k) \/ ReadToken(k) \/ RefreshAgain(k) \/ Logout(k)
          \/ \E j \in Slots : Rotate(k, j)
    \/ OtherLogin

PasswordRequest ==
    \/ ForgotPassword
    \/ \E k \in Slots : ChangePassword(k)
    \/ \E l \in resetLinks : ResetPassword(l)

SessionsNext ==
    \/ SessionRequest \/ PasswordRequest \/ SendResetMail
    \/ Deactivate \/ Reactivate
    \/ Tick

SessionsSpec == SessionsInit /\ [][SessionsNext]_sessionsVars

-----------------------------------------------------------------------------
(* Properties *)

\* A password change, a reset or a deactivation ends every session there was:
\* no access token from before it is accepted and no refresh token from before
\* it is valid, whatever broke or expired in between; and nobody works with a
\* deactivated account, although get_current_user does not look at it.  Only a
\* refresh under way at that moment gets through (auth_service.py,
\* _revoke_access_tokens and refresh; token_denylist.py).
EndedStaysEnded ==
    \A k \in Slots :
        tokens[k].ended \/ (~user.active /\ ~tokens[k].stray) => ~Accepted(k) /\ ~Valid(k)

\* A sign-in has one refresh token that works, however refreshes of it race,
\* and one more only for each of them that another one, a logout or the end of
\* the sessions overtook between its read and its commit (auth_service.py,
\* refresh).
OneTokenPerLogin ==
    \A k, j \in Slots :
        Valid(k) /\ Valid(j) /\ tokens[k].login = tokens[j].login => k = j

\* A reset link works once (security.py, create_password_reset_token).
LinksWorkOnce == \A l \in resetLinks : l.used => ~LinkWorks(l)
=============================================================================
