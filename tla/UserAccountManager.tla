--------------------------- MODULE UserAccountManager ---------------------------
(***************************************************************************)
(* UserAccountManagerImpl keeps the user info that the application shows   *)
(* in step with the token.  It observes the token's preference: the main   *)
(* thread delivers each change notification by reading the token of now,   *)
(* and one io thread runs RefreshAction for the tokens delivered, in       *)
(* order.  RefreshAction drops the cached content of a user who left,      *)
(* shows the new one and asks the server for the profile.  Profile         *)
(* updates, sign-ins and sign-outs run on threads of their own.            *)
(*                                                                         *)
(* The user info is compared by identity with NO_USER.  A stored NO_USER   *)
(* is another object after a restart: "blank" here.                        *)
(***************************************************************************)
EXTENDS TokenAuthenticator, Sequences

CONSTANTS
    Refresher,          \* the io thread of RefreshAction
    Updater,            \* the thread that updates the profile
    Account             \* the thread of sign-ins and sign-ups

ASSUME ThreadsAssumption ==
    /\ Callers = {Refresher, Updater, Account}
    /\ Account # Refresher /\ Account # Updater

VARIABLES
    info,               \* userInfoStorage
    ghost,              \* GhostUserPreference
    owners,             \* who came to be shown since the cached content was dropped
    tokens,             \* tokens delivered to the io thread
    serving,            \* the token RefreshAction runs for
    refresh,            \* where RefreshAction stands
    update,             \* where the profile update stands
    overtaken           \* history: an answer changed the user that is shown

accountVars == <<info, ghost, owners, tokens, serving, refresh, update, overtaken>>
vars == <<authVars, accountVars, budget>>

NoInfo == {"missing", "none"}
Shown == IF info \in Users THEN info ELSE None
UserOf(t) == IF t \in Users THEN t ELSE None
IsSignedIn == info \notin NoInfo

TypeOK ==
    /\ AuthTypeOK
    /\ info \in Users \union NoInfo \union {"blank"}
    /\ ghost \in BOOLEAN /\ overtaken \in BOOLEAN
    /\ owners \subseteq Users
    /\ tokens \in Seq(Tokens \union {NoToken})
    /\ serving \in Tokens \union {NoToken, None}
    /\ refresh \in {"idle", "show", "loading", "failed"}
    /\ update \in {"idle", "sending", "loading"}

\* The process starts: nobody signed in, or somebody who was when it ended.
Init ==
    /\ \E u \in Users \union {None} :
          /\ AuthStart(IF u = None THEN "removed" ELSE u)
          /\ info = IF u = None THEN "missing" ELSE u
          /\ owners = {u} \ {None}
          /\ ghost \in IF u = None THEN {TRUE} ELSE BOOLEAN
          /\ tokens = <<IF u = None THEN NoToken ELSE u>>
    /\ serving = None
    /\ refresh = "idle" /\ update = "idle"
    /\ overtaken = FALSE

-----------------------------------------------------------------------------
StartOp == Spend(2)

Show(u) ==
    /\ info' = u
    /\ owners' = IF u = Shown THEN owners ELSE owners \union {u}

\* A profile is stored, of the user whose token the request carried.
ShowAnswer(c) ==
    IF pc[c] = "ok" /\ header[c] \in Users
    THEN /\ Show(header[c])
         /\ overtaken' = (overtaken \/ header[c] # Shown)
    ELSE UNCHANGED <<info, owners, overtaken>>

CallEnds(c) ==
    /\ Goto(c, "idle")
    /\ tries' = [tries EXCEPT ![c] = 0]
    /\ header' = [header EXCEPT ![c] = None]
    /\ origin' = [origin EXCEPT ![c] = None]
    /\ UNCHANGED old

\* The main thread delivers a change to the subscriber, if there still is one.
Notify ==
    /\ changes > 0
    /\ changes' = changes - 1
    /\ tokens' = IF refresh = "failed" THEN tokens ELSE Append(tokens, StoredToken)
    /\ UNCHANGED <<lastToken, stored, diverged, monitorVars, callVars, grant, leaving,
                   info, ghost, owners, serving, refresh, update, overtaken, budget>>

-----------------------------------------------------------------------------
\* RefreshAction
MustDrop(t) == info \notin NoInfo /\ info # t
FailsOn(t) == t \in Users /\ info = "blank"         \* its getUserid() is null

RefreshTake ==
    /\ refresh = "idle"
    /\ tokens # <<>>
    /\ LET t == Head(tokens) IN
       /\ \/ /\ FailsOn(t)
             /\ refresh' = "failed"
             /\ tokens' = <<>>
             /\ UNCHANGED <<callVars, owners, serving>>
          \/ /\ ~FailsOn(t) /\ MustDrop(t)
             /\ refresh' = "show" /\ serving' = t
             /\ tokens' = Tail(tokens)
             /\ owners' = {}
             /\ UNCHANGED callVars
          \/ /\ t \in Users /\ info \in NoInfo
             /\ refresh' = "show" /\ serving' = t
             /\ tokens' = Tail(tokens)
             /\ UNCHANGED <<callVars, owners>>
          \/ /\ t \in Users /\ info = t
             /\ refresh' = "loading"
             /\ tokens' = Tail(tokens)
             /\ StartCall(Refresher)
             /\ UNCHANGED <<owners, serving>>
          \/ /\ t \notin Users /\ info \in NoInfo
             /\ tokens' = Tail(tokens)
             /\ UNCHANGED <<callVars, owners, refresh, serving>>
    /\ UNCHANGED <<tokenVars, monitorVars, grant, leaving, info, ghost, update, overtaken,
                   budget>>

RefreshShow ==
    /\ refresh = "show"
    /\ \/ /\ serving \in Users
          /\ Show(serving)
          /\ refresh' = "loading"
          /\ StartCall(Refresher)
          /\ UNCHANGED ghost
       \/ /\ serving \notin Users
          /\ info' = "none"
          /\ ghost' = TRUE
          /\ refresh' = "idle"
          /\ UNCHANGED <<callVars, owners>>
    /\ serving' = None
    /\ UNCHANGED <<tokenVars, monitorVars, grant, leaving, tokens, update, overtaken, budget>>

RefreshLoaded ==
    /\ refresh = "loading"
    /\ pc[Refresher] \in {"ok", "failed"}
    /\ ShowAnswer(Refresher)
    /\ CallEnds(Refresher)
    /\ refresh' = "idle" /\ serving' = None
    /\ UNCHANGED <<tokenVars, monitorVars, grant, leaving, ghost, tokens, update, budget>>

RefreshStep == RefreshTake \/ RefreshShow \/ RefreshLoaded

-----------------------------------------------------------------------------
\* updateUserProfile, and the end of uploadUserAvatar: an update, then a refresh.
UpdateProfile ==
    /\ update = "idle"
    /\ StartOp
    /\ update' = "sending"
    /\ StartCall(Updater)
    /\ UNCHANGED <<tokenVars, monitorVars, grant, leaving, info, ghost, owners, tokens,
                   serving, refresh, overtaken>>

ProfileSent ==
    /\ update = "sending"
    /\ \/ /\ pc[Updater] = "ok"
          /\ update' = "loading"
          /\ StartCall(Updater)
       \/ /\ pc[Updater] = "failed"
          /\ update' = "idle"
          /\ CallEnds(Updater)
    /\ UNCHANGED <<tokenVars, monitorVars, grant, leaving, info, ghost, owners, tokens,
                   serving, refresh, overtaken, budget>>

ProfileLoaded ==
    /\ update = "loading"
    /\ pc[Updater] \in {"ok", "failed"}
    /\ ShowAnswer(Updater)
    /\ CallEnds(Updater)
    /\ update' = "idle"
    /\ UNCHANGED <<tokenVars, monitorVars, grant, leaving, ghost, tokens, serving, refresh,
                   budget>>

UpdateStep == ProfileSent \/ ProfileLoaded

-----------------------------------------------------------------------------
\* Sign-ins and sign-ups that fail change nothing.
StartGrant ==
    /\ grant.step = "idle"
    /\ StartOp

SignIn(u) ==
    /\ StartGrant
    /\ TokenGranted(u, "real")
    /\ UNCHANGED <<tokenVars, monitorVars, callVars, leaving, accountVars>>

\* The sign-up is itself a call that is signed with a token.
SignUp(u, kind) ==
    /\ StartGrant
    /\ kind = "ghost" => ~IsSignedIn
    /\ StartCall(Account)
    /\ grant' = [NoGrant EXCEPT !.step = "calling", !.token = u, !.kind = kind]
    /\ UNCHANGED <<tokenVars, monitorVars, leaving, accountVars>>

SignUpAnswered ==
    /\ grant.step = "calling"
    /\ \/ pc[Account] = "ok" /\ TokenGranted(grant.token, grant.kind)
       \/ pc[Account] = "failed" /\ grant' = NoGrant
    /\ CallEnds(Account)
    /\ UNCHANGED <<tokenVars, monitorVars, leaving, accountVars, budget>>

\* TransferGfycatsIfNeeded: a ghost's gfycats go to whoever has the token now.
Transfers == grant.prev \in Users /\ IsSignedIn /\ ghost /\ lastToken \in Users

PostTokenChange ==
    /\ grant.step = "post"
    /\ \/ /\ Transfers
          /\ StartCall(Account)
          /\ grant' = [grant EXCEPT !.step = "transfer", !.prev = None]
       \/ /\ ~Transfers
          /\ grant' = [grant EXCEPT !.step = "mark", !.prev = None]
          /\ UNCHANGED callVars
    /\ UNCHANGED <<tokenVars, monitorVars, leaving, accountVars, budget>>

Transferred ==
    /\ grant.step = "transfer"
    /\ pc[Account] \in {"ok", "failed"}
    /\ CallEnds(Account)
    /\ grant' = [grant EXCEPT !.step = "mark"]
    /\ UNCHANGED <<tokenVars, monitorVars, leaving, accountVars, budget>>

MarkUser ==
    /\ grant.step = "mark"
    /\ \/ /\ grant.kind = "real"
          /\ ghost' = FALSE
          /\ grant' = NoGrant
       \/ /\ grant.kind = "facebook"                  \* facebookSignUp marks nobody
          /\ grant' = NoGrant
          /\ UNCHANGED ghost
       \/ /\ grant.kind = "ghost"
          /\ grant' = [grant EXCEPT !.step = "wait"]
          /\ UNCHANGED ghost
    /\ UNCHANGED <<tokenVars, monitorVars, callVars, leaving, info, owners, tokens, serving,
                   refresh, update, overtaken, budget>>

\* waitForUserInfoUpdate
MarkGhost ==
    /\ grant.step = "wait"
    /\ info = grant.token
    /\ ghost' = TRUE
    /\ grant' = NoGrant
    /\ UNCHANGED <<tokenVars, monitorVars, callVars, leaving, info, owners, tokens, serving,
                   refresh, update, overtaken, budget>>

GrantStep ==
    \/ SignUpAnswered \/ PostTokenChange \/ Transferred \/ MarkUser \/ MarkGhost
    \/ (ChangeToken(Account) \/ StoreToken) /\ UNCHANGED <<accountVars, budget>>

LeaveAccount ==
    /\ SignOut
    /\ UNCHANGED accountVars

AccountLeft == SignOutStored /\ UNCHANGED <<accountVars, budget>>

-----------------------------------------------------------------------------
\* The process ends at any point and starts again from the preferences.
Restart ==
    /\ StartOp
    /\ lastToken' = StoredToken
    /\ tokens' = <<StoredToken>>
    /\ changes' = 0
    /\ needRenewToken' = FALSE /\ lock' = None
    /\ pc' = [c \in Callers |-> "idle"]
    /\ tries' = [c \in Callers |-> 0]
    /\ header' = [c \in Callers |-> None]
    /\ origin' = [c \in Callers |-> None]
    /\ old' = [c \in Callers |-> None]
    /\ grant' = NoGrant
    /\ leaving' = FALSE /\ diverged' = FALSE
    /\ info' = IF info = "none" THEN "blank" ELSE info
    /\ serving' = None /\ refresh' = "idle" /\ update' = "idle"
    /\ UNCHANGED <<stored, ghost, owners, overtaken>>

Call(c) == CallStep(c) /\ UNCHANGED accountVars

Next ==
    \/ \E c \in Callers : Call(c)
    \/ Notify
    \/ RefreshStep
    \/ UpdateProfile \/ UpdateStep
    \/ \E u \in Users : SignIn(u) \/ \E kind \in {"real", "ghost", "facebook"} : SignUp(u, kind)
    \/ GrantStep
    \/ LeaveAccount \/ AccountLeft
    \/ Restart

\* Threads run and calls end; nobody has to start anything.
Fairness ==
    /\ \A c \in Callers : WF_vars(Call(c))
    /\ WF_vars(Notify) /\ WF_vars(RefreshStep) /\ WF_vars(UpdateStep)
    /\ WF_vars(GrantStep) /\ WF_vars(AccountLeft)

Spec == Init /\ [][Next]_vars /\ Fairness

-----------------------------------------------------------------------------
(***************************************************************************)
(* Memory and preferences hold the same token whenever nobody is changing  *)
(* it, unless a write that takes no monitor met another one, or a call was *)
(* given up, which clears the preferences alone: changeToken, reNewToken.  *)
(***************************************************************************)
MemoryMatchesStorage ==
    lock = None /\ ~leaving /\ ~diverged => lastToken = StoredToken

(***************************************************************************)
(* The renewal of a token never replaces the token of another user, who    *)
(* signed in while the renewal was under way: reNewToken against           *)
(* changeToken.                                                            *)
(***************************************************************************)
RenewalKeepsUser ==
    [][\A c \in Callers : TokenRenewed(c) /\ lastToken \in Users
            => lastToken' = lastToken]_vars

Settled ==
    /\ \A c \in Callers : pc[c] \in Ended
    /\ lock = None /\ ~leaving
    /\ grant.step \in {"idle", "wait"}
    /\ changes = 0 /\ tokens = <<>>
    /\ refresh \in {"idle", "failed"} /\ update = "idle"

(***************************************************************************)
(* When all is done the application shows the user whose token is stored,  *)
(* or nobody, and no content of another user is cached: RefreshAction.     *)
(* Two things break this: an answer that changes the user that is shown,   *)
(* and the end of RefreshAction, which a restart can bring about (FailsOn).*)
(***************************************************************************)
ShowsSignedInUser ==
    Settled /\ ~overtaken /\ refresh # "failed" =>
        /\ Shown = UserOf(StoredToken)
        /\ owners \subseteq {Shown}

(***************************************************************************)
(* Calls, renewals, sign-ins and refreshes do not wait for each other      *)
(* forever: the monitor is always left, and all comes to rest.             *)
(***************************************************************************)
ComesToRest == <>[]Settled
=================================================================================
