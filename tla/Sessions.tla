------------------------------- MODULE Sessions -------------------------------
(***************************************************************************)
(* Who is signed in: the users and refresh_tokens rows on the server, the  *)
(* token each installation of the app keeps in its secure storage, and the *)
(* requests between them.  The app refreshes with one request at a time,   *)
(* clears its storage when a refresh or a restart fails and after every    *)
(* logout; the server rotates the token of a refresh.                      *)
(*                                                                         *)
(* A request is sent, read (the handler has read its rows, mostly without a*)
(* lock), for some operations deleting (the snapshot of its DELETE is      *)
(* taken), and answered (committed or refused) until the device has the    *)
(* answer.  Sending is a step of its own where the request carries a token *)
(* that may change on the way; elsewhere it is one step with the reading.  *)
(***************************************************************************)
EXTENDS Naturals, FiniteSets

CONSTANTS
    Devices,        \* installations of the app signed in to one account
    Calls,          \* concurrent requests
    MaxTokens,      \* bound: refresh tokens ever issued
    Links,          \* bound: reset links that may be usable or in use at a time
    MaxPassword,    \* bound: changes of the password
    Offline         \* bound: may a device lose its connection or restart?

ASSUME SessionsAssumption ==
    /\ MaxTokens \in Nat /\ MaxPassword \in Nat
    /\ Offline \in BOOLEAN
    /\ "nobody" \notin Devices

VARIABLES
    account,        \* "none", "active" or "deleted"
    password,       \* how often it has been changed
    token,          \* refresh_tokens by number
    link,           \* password_reset_tokens that are not used, deleted or expired
    store,          \* the token a device keeps, 0: none
    call,           \* requests in flight
    excused         \* history: devices that lost a connection, or overlapped
                    \* a logout with a refresh, or a sign-in with anything

server == <<account, password, token, link>>
vars == <<server, store, call, excused>>

Tokens == 1..MaxTokens
Passwords == 0..MaxPassword
Nobody == "nobody"      \* no device waits for the answer
(* A token remembers the device it was given to, until a further sign-in   *)
(* overwrites it there, and the password of the session it continues: Late *)
(* if its issue overlapped a change of it.                                 *)
Late == MaxPassword + 1
NoToken == [state |-> "none", to |-> Nobody, password |-> 0]
NoCall == [op |-> "idle", from |-> Nobody, pc |-> "answered", arg |-> 0, saw |-> {},
           password |-> 0, late |-> FALSE, out |-> 0, ok |-> FALSE]
Signing == {"register", "login"}
Deleting == {"change", "reset", "delete"}

TypeOK ==
    /\ account \in {"none", "active", "deleted"} /\ password \in Passwords
    /\ token \in [Tokens -> [state : {"none", "live", "revoked", "lapsed", "gone"},
                             to : Devices \cup {Nobody},
                             password : Passwords \cup {Late}]]
    /\ link \subseteq Links
    /\ store \in [Devices -> 0..MaxTokens]
    /\ \A c \in Calls :
        /\ call[c].op \in {"idle", "refresh", "logout", "forgot"} \cup Signing \cup Deleting
        /\ call[c].pc \in {"sent", "read", "deleting", "answered"}
        /\ call[c].out \in 0..MaxTokens
    /\ excused \subseteq Devices

Init ==
    /\ account = "none" /\ password = 0
    /\ token = [t \in Tokens |-> NoToken]
    /\ link = {}
    /\ store = [d \in Devices |-> 0]
    /\ call = [c \in Calls |-> NoCall]
    /\ excused = {}

-------------------------------------------------------------------------------
Live(t) == token[t].state = "live"
At(c, op, pc) == call[c].op = op /\ call[c].pc = pc
Waits(d) == {c \in Calls : call[c].op # "idle" /\ call[c].from = d}
Doing(d, op) == \E c \in Waits(d) : call[c].op = op
ExcusedIf(d, overlaps) == excused' = IF overlaps THEN excused \cup {d} ELSE excused

Begin(c, d, op, pc, arg, saw) ==
    /\ call[c] = NoCall
    /\ call' = [call EXCEPT ![c] = [NoCall EXCEPT !.op = op, !.from = d, !.pc = pc,
                                      !.arg = arg, !.saw = saw, !.password = password]]
Answered(c, ok) ==
    [call EXCEPT ![c] = IF call[c].from = Nobody THEN NoCall
                        ELSE [NoCall EXCEPT !.op = call[c].op, !.from = call[c].from,
                                            !.ok = ok]]
Refused(c) == call' = Answered(c, FALSE) /\ UNCHANGED server

-------------------------------------------------------------------------------
(* The app.                                                                *)

(* ApiClient._refresh: one refresh at a time, shared by the requests that  *)
(* failed with 401.                                                        *)
AnyRefresh(d) == store[d] # 0
SingleFlight(d) == store[d] # 0 /\ ~Doing(d, "refresh")
Leaving(d) == \E op \in {"logout"} \cup Deleting : Doing(d, op)
SigningIn(d) == \E op \in Signing : Doing(d, op)

StartRefresh(c, d) ==
    /\ SingleFlight(d)
    /\ Begin(c, d, "refresh", "sent", store[d], {})
    /\ ExcusedIf(d, Doing(d, "logout") \/ SigningIn(d))
    /\ UNCHANGED <<server, store>>

StartLogout(c, d) ==
    /\ store[d] # 0 /\ ~Leaving(d)
    /\ Begin(c, d, "logout", "sent", store[d], {})
    /\ ExcusedIf(d, Doing(d, "refresh") \/ SigningIn(d))
    /\ UNCHANGED <<server, store>>

(* What the storage holds after an answer: a failed refresh and any logout *)
(* clear it; after a change or the deletion the app logs out.  A sign-in   *)
(* overwrites the token of an earlier one, which no device then knows.     *)
OldTokenKept(c) == IF call[c].op = "logout" THEN 0
                   ELSE IF call[c].op \in Signing THEN call[c].out
                   ELSE store[call[c].from]
KeptAfter(c) ==
    LET k == call[c] IN
    CASE k.op \in Signing -> IF k.ok THEN k.out ELSE store[k.from]
      [] k.op = "refresh" -> IF k.ok THEN k.out ELSE 0
      [] k.op = "logout"  -> 0
      [] OTHER            -> store[k.from]

Overwritten(c) ==
    LET k == call[c] IN
    IF k.op \in Signing /\ k.ok /\ store[k.from] # 0
    THEN [token EXCEPT ![store[k.from]].to = Nobody]
    ELSE token

Receive(c) ==
    LET k == call[c] IN
    /\ k.op # "idle" /\ k.pc = "answered" /\ k.from # Nobody
    /\ store' = [store EXCEPT ![k.from] = KeptAfter(c)]
    /\ call' = [call EXCEPT ![c] =
                  IF k.op \in Deleting /\ k.ok /\ store[k.from] # 0
                  THEN [NoCall EXCEPT !.op = "logout", !.from = k.from, !.pc = "sent",
                                      !.arg = store[k.from]]
                  ELSE NoCall]
    /\ ExcusedIf(k.from, k.op \in Deleting /\ Doing(k.from, "refresh"))
    /\ token' = Overwritten(c)
    /\ UNCHANGED <<account, password, link>>

(* A timeout or a lost connection: the handler goes on or dies, the app    *)
(* treats it like a failure.                                               *)
GiveUp(c) ==
    LET k == call[c] IN
    /\ Offline /\ k.op # "idle" /\ k.from # Nobody
    /\ store' = [store EXCEPT ![k.from] = IF k.op \in {"refresh", "logout"} THEN 0 ELSE @]
    /\ call' = [call EXCEPT ![c].from = Nobody]
    /\ excused' = excused \cup {k.from}
    /\ UNCHANGED server

(* The app is killed and started again; restore() clears the storage if    *)
(* the server cannot be reached.                                           *)
Restart(d) ==
    /\ Offline /\ \/ Waits(d) # {} \/ store[d] # 0
    /\ store' \in {store, [store EXCEPT ![d] = 0]}
    /\ call' = [c \in Calls |-> IF c \in Waits(d) THEN [call[c] EXCEPT !.from = Nobody]
                                ELSE call[c]]
    /\ excused' = excused \cup {d}
    /\ UNCHANGED server

(* The handler of a request nobody waits for dies uncommitted.             *)
Dies(c) == /\ call[c].op # "idle" /\ call[c].from = Nobody
           /\ call' = [call EXCEPT ![c] = NoCall]
           /\ UNCHANGED <<server, store, excused>>

-------------------------------------------------------------------------------
(* Reads of the handlers.                                                  *)

(* register finds no account of the address, or login the right password.  *)
(* The app lets a device sign in that is signed in already.                *)
SignInRead(c, d, op) ==
    /\ account = IF op = "register" THEN "none" ELSE "active"
    /\ Begin(c, d, op, "read", 0, {})
    /\ ExcusedIf(d, Waits(d) # {})
    /\ UNCHANGED <<server, store>>

Refreshable(t) == Live(t) /\ account = "active"

RefreshRead(c) ==
    /\ At(c, "refresh", "sent")
    /\ IF Refreshable(call[c].arg)
       THEN /\ call' = [call EXCEPT ![c].pc = "read",
                                    ![c].password = token[call[c].arg].password]
            /\ UNCHANGED server
       ELSE Refused(c)
    /\ UNCHANGED <<store, excused>>

LogoutRead(c) ==
    /\ At(c, "logout", "sent")
    /\ call' = IF token[call[c].arg].state # "gone"
               THEN [call EXCEPT ![c].pc = "read"]
               ELSE Answered(c, TRUE)
    /\ UNCHANGED <<server, store, excused>>

(* A change or the deletion, with an access token and the right password.  *)
PasswordRead(c, d, op) ==
    /\ store[d] # 0 /\ ~Leaving(d) /\ account = "active"
    /\ Begin(c, d, op, "read", 0, {})
    /\ ExcusedIf(d, SigningIn(d))
    /\ UNCHANGED <<server, store>>

(* The link is selected FOR UPDATE: a second use waits for the first.      *)
LinkFree(k) == \A c \in Calls : call[c].op = "reset" => call[c].arg # k
SelectUnlocked(k) == k \in link
SelectForUpdate(k) == k \in link /\ LinkFree(k)

ResetRead(c, k) ==
    /\ SelectForUpdate(k) /\ account = "active"
    /\ Begin(c, Nobody, "reset", "read", k, {})
    /\ UNCHANGED <<server, store, excused>>

ForgotRead(c) ==
    /\ account = "active"
    /\ Begin(c, Nobody, "forgot", "read", 0, link)
    /\ UNCHANGED <<server, store, excused>>

(* DELETE FROM refresh_tokens sees the rows committed before it starts.    *)
(* The locks on the account's rows let one such request run at a time.     *)
SnapshotRead(c) ==
    /\ call[c].op \in Deleting /\ call[c].pc = "read"
    /\ \A x \in Calls : call[x].pc # "deleting"
    /\ call' = [call EXCEPT ![c].pc = "deleting",
                            ![c].saw = {t \in Tokens : token[t].state # "none"}]
    /\ UNCHANGED <<server, store, excused>>

-------------------------------------------------------------------------------
(* Commits of the handlers.                                                *)

NewToken == Cardinality({t \in Tokens : token[t].state # "none"}) + 1

Issues(c, tokens) ==
    /\ NewToken \in Tokens
    /\ token' = [tokens EXCEPT ![NewToken] =
                    [state |-> "live", to |-> call[c].from,
                     password |-> IF call[c].late THEN Late ELSE call[c].password]]
    /\ call' = [Answered(c, TRUE) EXCEPT ![c].out = IF call[c].from = Nobody THEN 0
                                                    ELSE NewToken]

SignInCommit(c) ==
    /\ call[c].op \in Signing /\ call[c].pc = "read"
    /\ IF call[c].op = "register" /\ account # "none"   \* users.email is unique
       THEN Refused(c)
       ELSE /\ account' = IF call[c].op = "register" THEN "active" ELSE account
            /\ Issues(c, token)
            /\ UNCHANGED <<password, link>>
    /\ UNCHANGED <<store, excused>>

Dead(state) == [NoToken EXCEPT !.state = state]
NotRotated(t) == token
Rotated(t) == [token EXCEPT ![t] = Dead("revoked")]

(* The UPDATE of a row that has been deleted meanwhile fails.              *)
RefreshCommit(c) ==
    LET t == call[c].arg IN
    /\ At(c, "refresh", "read")
    /\ IF token[t].state = "gone"
       THEN Refused(c)
       ELSE /\ Issues(c, Rotated(t))
            /\ UNCHANGED <<account, password, link>>
    /\ UNCHANGED <<store, excused>>

LogoutCommit(c) ==
    LET t == call[c].arg IN
    /\ At(c, "logout", "read")
    /\ IF token[t].state = "gone"
       THEN Refused(c)
       ELSE /\ token' = Rotated(t)
            /\ call' = Answered(c, TRUE)
            /\ UNCHANGED <<account, password, link>>
    /\ UNCHANGED <<store, excused>>

(* The rows seen are deleted; whatever was issued since is late, and so is *)
(* whoever has read and not written yet.                                   *)
LateCalls == [x \in Calls |-> [call[x] EXCEPT !.late = @ \/ call[x].pc = "read"]]
OnlyOwnSession(c) ==
    [t \in Tokens |-> IF t \in call[c].saw /\ token[t].to = call[c].from
                      THEN Dead("gone") ELSE token[t]]
SessionsDeleted(c) ==
    [t \in Tokens |-> IF t \in call[c].saw THEN Dead("gone")
                      ELSE IF Live(t) THEN [token[t] EXCEPT !.password = Late]
                      ELSE token[t]]

PasswordCommit(c) ==
    /\ call[c].op \in {"change", "reset"} /\ call[c].pc = "deleting"
    /\ password < MaxPassword
    /\ password' = password + 1
    /\ token' = SessionsDeleted(c)
    /\ link' = IF call[c].op = "reset" THEN link \ {call[c].arg} ELSE link
    /\ call' = [LateCalls EXCEPT ![c] = Answered(c, TRUE)[c]]
    /\ UNCHANGED <<account, store, excused>>

DeleteCommit(c) ==
    /\ At(c, "delete", "deleting") /\ \A k \in Links : LinkFree(k)
    /\ account' = "deleted"
    /\ token' = SessionsDeleted(c)
    /\ link' = {}
    /\ call' = [LateCalls EXCEPT ![c] = Answered(c, TRUE)[c]]
    /\ UNCHANGED <<password, store, excused>>

(* The database refuses the deletion and nothing of it is committed.       *)
DeleteFails(c) == /\ At(c, "delete", "deleting")
                  /\ Refused(c)
                  /\ UNCHANGED <<store, excused>>

(* Unused links are deleted and a new one is mailed.  The DELETE waits for *)
(* a reset that holds one of them, and spares it if it is used then.       *)
LinksDeleted(c) == link \ call[c].saw
FreshLink(k) == k \notin link /\ \A c \in Calls : call[c].arg # k /\ k \notin call[c].saw
ForgotCommit(c) ==
    /\ At(c, "forgot", "read")
    /\ \A k \in call[c].saw : LinkFree(k)
    /\ \E k \in Links : FreshLink(k) /\ link' = LinksDeleted(c) \cup {k}
    /\ call' = Answered(c, TRUE)
    /\ UNCHANGED <<account, password, token, store, excused>>

-------------------------------------------------------------------------------
(* Thirty days, or the minutes of password_reset_minutes, pass: longer than*)
(* any request lasts.                                                      *)
Quiet == \A c \in Calls : call[c] = NoCall
TokenLapses(t) == /\ Live(t) /\ Quiet
                  /\ token' = [token EXCEPT ![t] = Dead("lapsed")]
                  /\ UNCHANGED <<account, password, link, store, call, excused>>
LinkLapses(k) == /\ k \in link /\ Quiet
                 /\ link' = link \ {k}
                 /\ UNCHANGED <<account, password, token, store, call, excused>>

DeviceStep(c, d) == \/ StartRefresh(c, d) \/ StartLogout(c, d)
                    \/ \E op \in Signing : SignInRead(c, d, op)
                    \/ PasswordRead(c, d, "change")
ServerStep(c) == \/ RefreshRead(c) \/ LogoutRead(c) \/ ForgotRead(c)
                 \/ \E k \in Links : ResetRead(c, k)
                 \/ SnapshotRead(c)
                 \/ SignInCommit(c) \/ RefreshCommit(c) \/ LogoutCommit(c)
                 \/ PasswordCommit(c) \/ ForgotCommit(c)

(* Everything but the deletion of the account.                             *)
SessionStep ==
    \/ \E c \in Calls :
        \/ \E d \in Devices : DeviceStep(c, d)
        \/ ServerStep(c) \/ Receive(c) \/ GiveUp(c) \/ Dies(c)
    \/ \E d \in Devices : Restart(d)
    \/ \E t \in Tokens : TokenLapses(t)
    \/ \E k \in Links : LinkLapses(k)

Next == \/ SessionStep
        \/ \E c \in Calls :
            \/ \E d \in Devices : PasswordRead(c, d, "delete")
            \/ DeleteCommit(c) \/ DeleteFails(c)

Spec == Init /\ [][Next]_vars

-------------------------------------------------------------------------------
(* Safety: a session does not outlive the password it was opened with, or  *)
(* the account: the only ones to survive a change, a reset or the deletion *)
(* are those whose login or refresh overlapped it.                         *)
OldSessionsEnd ==
    \A t \in Tokens :
        Live(t) => token[t].password \in IF account = "deleted" THEN {Late}
                                         ELSE {password, Late}

(* Safety: a device that is signed out leaves no usable token behind but   *)
(* those that a further sign-in has overwritten, unless its connection was *)
(* lost, a refresh overlapped the logout or anything a sign-in.            *)
SignedOutLeavesNothing ==
    \A d \in Devices \ excused :
        account = "active" /\ store[d] = 0 /\ Waits(d) = {}
        => \A t \in Tokens : token[t].to = d => ~Live(t)

(* Safety: the token a device keeps has not been spent, except by a        *)
(* request of its own that is still under way.                             *)
StoredIsUsable ==
    \A d \in Devices \ excused :
        store[d] # 0 /\ Waits(d) = {} => token[store[d]].state # "revoked"

(* Action property: a reset link changes the password once, also when two  *)
(* requests confirm it at the same time.                                   *)
LinkUsedOnce ==
    [][\A c \in Calls :
        call[c].op = "reset" /\ password' # password /\ call'[c].pc # call[c].pc
        => call[c].arg \in link]_vars
===============================================================================
