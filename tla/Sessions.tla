------------------------------ MODULE Sessions ------------------------------
(***************************************************************************)
(* The refresh sessions of one account: service/auth.go,                   *)
(* repository/redis_extensions.go, and the browser that uses them          *)
(* (frontend lib/api.ts, stores/authStore.ts).                             *)
(*                                                                         *)
(* Redis keeps a key per refresh token (refresh:{jti}) and an index of the *)
(* account's tokens (refresh_user:{id}).  A call is interleaved command by *)
(* command: a MySQL statement, a Redis command or a MULTI/EXEC block.  A   *)
(* token is its JTI; a family is named by the token its login issued.      *)
(* Usernames are left out: renaming matters here because it revokes.  A    *)
(* definition X_Bug before X is a plausible mistake in the code X models.  *)
(***************************************************************************)
EXTENDS Integers, FiniteSets

CONSTANTS
    Calls,        \* goroutines serving requests
    Clients,      \* browsers with a store of their own
    Tokens,       \* JTIs that can be issued (bound)
    MaxChanges,   \* bound: password changes and renames
    MaxFaults,    \* bound: failed commands, lost answers, expiries, second tabs
    None

ASSUME ConstantsAssumption ==
    /\ MaxChanges \in Nat /\ MaxFaults \in Nat
    /\ None \notin Calls \cup Clients \cup Tokens
    /\ "saved" \notin Tokens \cup {None}

VARIABLES
    password,   \* users.password_hash, as a version
    live,       \* the tokens with a refresh:{jti} key
    index,      \* the members of refresh_user:{id}
    family,     \* family[j]: the family_id of token j, None before it is issued
    parent,     \* parent[j]: the token that was exchanged for j (history)
    raced,      \* tokens stored between the two commands of a revocation (history)
    pc, op,     \* where each call is and what it does
    who,        \* who[p]: the client that waits for the answer
    guess,      \* guess[p]: the password the call presents
    old,        \* old[p]: the token the call presents
    jtis,       \* jtis[p]: the result of SMEMBERS
    result,     \* result[p]: the token in the answer, Saved, or None for an error
    stored,     \* stored[c]: the refresh token in the client's store
    flight,     \* flight[c]: the call behind refreshPromise
    excused,    \* clients that may lose their session for a reason (history)
    changes, faults

redisVars == <<live, index, family, parent, raced>>
args == <<op, who, guess, old>>
client == <<stored, flight, excused>>
vars == <<password, live, index, family, parent, raced, pc, op, who, guess, old, jtis, result,
          stored, flight, excused, changes, faults>>

Saved == "saved"   \* the answer of UpdatePassword, which carries no token
Ops == {"login", "refresh", "rename", "password"}
Steps == {"idle", "read", "store", "watch", "exec", "update", "index", "del", "save", "answer"}

TypeOK ==
    /\ password \in Nat
    /\ live \subseteq Tokens /\ index \subseteq Tokens /\ raced \subseteq Tokens
    /\ family \in [Tokens -> Tokens \cup {None}]
    /\ parent \in [Tokens -> Tokens \cup {None}]
    /\ pc \in [Calls -> Steps]
    /\ op \in [Calls -> Ops]
    /\ who \in [Calls -> Clients \cup {None}]
    /\ guess \in [Calls -> Nat]
    /\ old \in [Calls -> Tokens \cup {None}]
    /\ jtis \in [Calls -> SUBSET Tokens]
    /\ result \in [Calls -> Tokens \cup {None, Saved}]
    /\ stored \in [Clients -> Tokens \cup {None}]
    /\ flight \in [Clients -> Calls \cup {None}]
    /\ excused \subseteq Clients
    /\ changes \in 0..MaxChanges /\ faults \in 0..MaxFaults

\* The account is registered and nobody is logged in.
Init ==
    /\ password = 0
    /\ live = {} /\ index = {} /\ raced = {}
    /\ family = [j \in Tokens |-> None]
    /\ parent = [j \in Tokens |-> None]
    /\ pc = [p \in Calls |-> "idle"]
    /\ op = [p \in Calls |-> "login"]
    /\ who = [p \in Calls |-> None]
    /\ guess = [p \in Calls |-> 0]
    /\ old = [p \in Calls |-> None]
    /\ jtis = [p \in Calls |-> {}]
    /\ result = [p \in Calls |-> None]
    /\ stored = [c \in Clients |-> None]
    /\ flight = [c \in Clients |-> None]
    /\ excused = {}
    /\ changes = 0 /\ faults = 0

Goto(p, step) == pc' = [pc EXCEPT ![p] = step]
Fault == faults < MaxFaults /\ faults' = faults + 1

(***************************************************************************)
(* The client: what starts a call                                          *)
(***************************************************************************)
Request(p, c, what, token) ==
    /\ pc[p] = "idle"
    /\ Goto(p, "read")
    /\ op' = [op EXCEPT ![p] = what]
    /\ who' = [who EXCEPT ![p] = c]
    /\ guess' = [guess EXCEPT ![p] = password]
    /\ old' = [old EXCEPT ![p] = token]
    /\ UNCHANGED <<password, redisVars, jtis, result>>

\* The login page is shown to a client without a session; the user types the
\* password that is valid at this moment.
Login(p, c) ==
    /\ stored[c] = None
    /\ Request(p, c, "login", None)
    /\ UNCHANGED <<client, changes, faults>>

Unauthorized_NoPromise(p, c) ==
    /\ stored[c] # None
    /\ Request(p, c, "refresh", stored[c])
    /\ flight' = [flight EXCEPT ![c] = p]
    /\ UNCHANGED <<stored, excused, changes, faults>>

\* refreshAccessToken after a 401 or before the access token expires.  While
\* refreshPromise is set every caller waits for it.
Unauthorized(p, c) ==
    /\ stored[c] # None /\ flight[c] = None
    /\ Request(p, c, "refresh", stored[c])
    /\ flight' = [flight EXCEPT ![c] = p]
    /\ UNCHANGED <<stored, excused, changes, faults>>

\* Another tab of the browser, which has its own refreshPromise, or a retry
\* presents a token once more.
SecondTab(p, j) ==
    /\ family[j] # None
    /\ Fault
    /\ Request(p, None, "refresh", j)
    /\ excused' = Clients
    /\ UNCHANGED <<stored, flight, changes>>

\* UpdateUsername and UpdatePassword from the settings page.
Change(p, c, what) ==
    /\ stored[c] # None /\ changes < MaxChanges
    /\ Request(p, c, what, None)
    /\ changes' = changes + 1
    /\ UNCHANGED <<client, faults>>

\* clearSession by the user or after a kick; the server is not told.
Logout(c) ==
    /\ stored[c] # None
    /\ stored' = [stored EXCEPT ![c] = None]
    /\ excused' = excused \cup {c}
    /\ UNCHANGED <<password, redisVars, pc, args, jtis, result, flight, changes, faults>>

(***************************************************************************)
(* The server: one action per command                                      *)
(***************************************************************************)
Answer(p, j) == Goto(p, "answer") /\ result' = [result EXCEPT ![p] = j]

\* What a call does once it knows the user.
AfterRead == [login |-> "store", refresh |-> "watch", rename |-> "update", password |-> "index"]

\* GetUserByUsername or GetUserByID, and the comparison with the hash read.
ReadUser(p) ==
    /\ pc[p] = "read"
    /\ IF op[p] \in {"login", "password"} /\ guess[p] # password
         THEN Answer(p, None)
         ELSE Goto(p, AfterRead[op[p]]) /\ UNCHANGED result
    /\ UNCHANGED <<password, redisVars, args, jtis, client, changes, faults>>

Fresh == { j \in Tokens : family[j] = None }

\* A token stored now may be missed by a revocation that has read the index.
Record(j) == raced' = IF \E q \in Calls : pc[q] = "del" THEN raced \cup {j} ELSE raced

\* IssuePair with a new family and StoreRefreshSession, one MULTI block.
Store(p) ==
    /\ pc[p] = "store"
    /\ \E j \in Fresh :
           /\ live' = live \cup {j}
           /\ index' = index \cup {j}
           /\ family' = [family EXCEPT ![j] = j]
           /\ Record(j)
           /\ Answer(p, j)
    /\ UNCHANGED <<password, parent, args, jtis, client, changes, faults>>

\* RotateRefreshSession: WATCH and HGETALL of the old key.
Watch(p) ==
    /\ pc[p] = "watch"
    /\ IF old[p] \in live THEN Goto(p, "exec") /\ UNCHANGED result ELSE Answer(p, None)
    /\ UNCHANGED <<password, redisVars, args, jtis, client, changes, faults>>

\* The MULTI block: the old key goes, the new one comes, in the same family.
Rotate(p, j) ==
    /\ live' = (live \ {old[p]}) \cup {j}
    /\ index' = (index \ {old[p]}) \cup {j}
    /\ family' = [family EXCEPT ![j] = family[old[p]]]
    /\ parent' = [parent EXCEPT ![j] = old[p]]
    /\ Record(j)
    /\ Answer(p, j)

Exec_NoWatch(p) ==
    /\ pc[p] = "exec"
    /\ \E j \in Fresh : Rotate(p, j)
    /\ UNCHANGED <<password, args, jtis, client, changes, faults>>

Exec_KeepsOld(p) ==
    /\ pc[p] = "exec"
    /\ \E j \in Fresh : /\ live' = live \cup {j}
                        /\ index' = index \cup {j}
                        /\ family' = [family EXCEPT ![j] = family[old[p]]]
                        /\ parent' = [parent EXCEPT ![j] = old[p]]
                        /\ Record(j) /\ Answer(p, j)
    /\ UNCHANGED <<password, args, jtis, client, changes, faults>>

Exec_NoIndex(p) ==
    /\ pc[p] = "exec" /\ old[p] \in live
    /\ \E j \in Fresh : /\ live' = (live \ {old[p]}) \cup {j}
                        /\ index' = index \ {old[p]}
                        /\ family' = [family EXCEPT ![j] = family[old[p]]]
                        /\ parent' = [parent EXCEPT ![j] = old[p]]
                        /\ Record(j) /\ Answer(p, j)
    /\ UNCHANGED <<password, args, jtis, client, changes, faults>>

\* EXEC of the rotation.  A key is written once and deleted once, so the watched
\* key is untouched exactly if it is still there; otherwise TxFailedErr is
\* answered like a used token.
Exec(p) ==
    /\ pc[p] = "exec"
    /\ IF old[p] \in live
         THEN \E j \in Fresh : Rotate(p, j)
         ELSE Answer(p, None) /\ UNCHANGED redisVars
    /\ UNCHANGED <<password, args, jtis, client, changes, faults>>

\* UPDATE users SET username; the name may be taken or, with no row affected,
\* unchanged meanwhile.
UpdateUsername(p) ==
    /\ pc[p] = "update"
    /\ \/ Goto(p, "index") /\ UNCHANGED result
       \/ Answer(p, None)
    /\ UNCHANGED <<password, redisVars, args, jtis, client, changes, faults>>

ReadIndex_SaveFirst(p) ==
    /\ pc[p] = "index"
    /\ jtis' = [jtis EXCEPT ![p] = index]
    /\ Goto(p, IF op[p] = "password" THEN "save" ELSE "del")
    /\ UNCHANGED <<password, redisVars, args, result, client, changes, faults>>

\* RevokeUserRefreshSessions: SMEMBERS of the index ...
ReadIndex(p) ==
    /\ pc[p] = "index"
    /\ jtis' = [jtis EXCEPT ![p] = index]
    /\ Goto(p, "del")
    /\ UNCHANGED <<password, redisVars, args, result, client, changes, faults>>

AfterRevoke(p) == IF op[p] = "rename" THEN "store" ELSE "save"

\* ... and DEL of the index and of the keys read from it.
Del(p) ==
    /\ pc[p] = "del"
    /\ live' = live \ jtis[p]
    /\ index' = {}
    /\ excused' = Clients
    /\ Goto(p, AfterRevoke(p))
    /\ UNCHANGED <<password, family, parent, raced, args, jtis, result, stored, flight,
                   changes, faults>>

\* UPDATE users SET password_hash.
SavePassword(p) ==
    /\ pc[p] = "save"
    /\ password' = password + 1
    /\ Answer(p, Saved)
    /\ UNCHANGED <<redisVars, args, jtis, client, changes, faults>>

\* A command fails without effect and the call answers an error.  One that took
\* effect and failed looks like a success whose answer is lost.
CommandFails(p) ==
    /\ pc[p] \notin {"idle", "answer"}
    /\ Fault
    /\ Answer(p, None)
    /\ excused' = Clients
    /\ UNCHANGED <<password, redisVars, args, jtis, stored, flight, changes>>

(***************************************************************************)
(* The client: what an answer does                                         *)
(***************************************************************************)
Ended(p) ==
    /\ Goto(p, "idle")
    /\ result' = [result EXCEPT ![p] = None]
    /\ jtis' = [jtis EXCEPT ![p] = {}]
    /\ op' = [op EXCEPT ![p] = "login"]
    /\ who' = [who EXCEPT ![p] = None]
    /\ guess' = [guess EXCEPT ![p] = 0]
    /\ old' = [old EXCEPT ![p] = None]

Settled(p) == flight' = [c \in Clients |-> IF flight[c] = p THEN None ELSE flight[c]]

Session(p) == IF result[p] = Saved THEN None ELSE result[p]

\* setSession after a login or a rename; rotateSession, or clearSession on any
\* error, after a refresh; clearSession after a password change.
Deliver(p) ==
    LET c == who[p]
        keep == c = None \/ (result[p] = None /\ op[p] # "refresh")
    IN
    /\ pc[p] = "answer"
    /\ Ended(p)
    /\ Settled(p)
    /\ stored' = IF keep THEN stored ELSE [stored EXCEPT ![c] = Session(p)]
    /\ UNCHANGED <<password, redisVars, excused, changes, faults>>

\* The client's 15 seconds pass or the network fails; the call goes on without
\* it.  refreshAccessToken clears the session.
GiveUp(p) ==
    LET c == who[p] IN
    /\ pc[p] # "idle" /\ c # None
    /\ Fault
    /\ who' = [who EXCEPT ![p] = None]
    /\ Settled(p)
    /\ stored' = IF op[p] = "refresh" THEN [stored EXCEPT ![c] = None] ELSE stored
    /\ excused' = excused \cup {c}
    /\ UNCHANGED <<password, redisVars, pc, op, guess, old, jtis, result, changes>>

\* The TTL of a refresh key passes; the index lives at least as long.
Expire(j) ==
    /\ j \in live
    /\ Fault
    /\ live' = live \ {j}
    /\ excused' = Clients
    /\ UNCHANGED <<password, index, family, parent, raced, pc, args, jtis, result, stored, flight,
                   changes>>

(***************************************************************************)
(* The specification                                                       *)
(***************************************************************************)
ServerStep(p) ==
    \/ ReadUser(p) \/ Store(p) \/ Watch(p) \/ Exec(p) \/ UpdateUsername(p)
    \/ ReadIndex(p) \/ Del(p) \/ SavePassword(p)

Next ==
    \/ \E p \in Calls :
           \/ \E c \in Clients :
                  \/ Login(p, c) \/ Unauthorized(p, c)
                  \/ \E what \in {"rename", "password"} : Change(p, c, what)
           \/ \E j \in Tokens : SecondTab(p, j)
           \/ ServerStep(p) \/ CommandFails(p) \/ Deliver(p) \/ GiveUp(p)
    \/ \E c \in Clients : Logout(c)
    \/ \E j \in Tokens : Expire(j)

Spec == Init /\ [][Next]_vars

(***************************************************************************)
(* Properties                                                              *)
(***************************************************************************)

\* A refresh token is exchanged at most once, although several tabs, retries
\* and revocations present and delete it concurrently.
ExchangedOnce ==
    \A j, k \in Tokens : parent[j] # None /\ parent[j] = parent[k] => j = k

\* A family never has two valid tokens: whoever loses the race of two
\* rotations does not end up with a second branch.
OneLivePerFamily ==
    \A j, k \in live : family[j] = family[k] => j = k

\* The index names every valid token, so that a revocation finds it, except
\* those stored between the two commands of another revocation, whose DEL
\* took the index away with them.
IndexComplete == live \subseteq index \cup raced

\* When the new password becomes valid, no token that the revocation before it
\* has found is: the order is revoke first, save second, and every error in
\* between leaves the old password.  It says nothing about a token stored after
\* the SMEMBERS; that no old token at all survives is OldTokensRevoked of
\* SessionsAged, which the code does not keep.
RevokedBeforeSaved ==
    [][password' # password =>
           \E p \in Calls : pc[p] = "save" /\ jtis[p] \cap live = {}]_vars

\* refreshPromise never outlives its call: a promise that is not cleared would
\* block every later refresh of the client.
PromiseCurrent ==
    \A c \in Clients : flight[c] # None =>
        who[flight[c]] = c /\ op[flight[c]] = "refresh" /\ pc[flight[c]] # "idle"

\* A client whose requests all run into a 401 at once keeps its session: it is
\* cleared only after a logout, a revocation, an expiry, a failure or a second
\* tab, and never because two refreshes of its own met.
LogoutHasReason ==
    [][\A c \in Clients : stored[c] # None /\ stored'[c] = None => c \in excused']_vars

=============================================================================
