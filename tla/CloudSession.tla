----------------------------- MODULE CloudSession -----------------------------
(***************************************************************************)
(* The Backpack Cloud account on one machine (internal/cloud).  Login and  *)
(* Logout run in CLI processes and change two files that belong together,  *)
(* device.key and device.json; requests, of CLI processes and of the       *)
(* daemon, load both to sign a challenge and keep the token they get.  No  *)
(* lock orders the processes.  A device of the account is a number; its    *)
(* private key, its identity and its tokens are called by the same number. *)
(***************************************************************************)
EXTENDS Naturals

CONSTANTS
  Clis,         \* CLI processes: each command is a process of its own
  Server,       \* the daemon, which requests and keeps its token
  MaxLogins,    \* bound: devices that are ever authorized
  MaxBreaks     \* bound: commands that die, writes that fail, revocations

VARIABLES
  key, meta,    \* device.key and device.json: a device, 0 when there is none
  revoked,      \* devices the account has revoked
  pc,           \* the step of each process
  id, secret,   \* what it saves, or has loaded: the device and the key
  token, fresh, \* the daemon's cached token, 0 when none; more than 30 s left
  logins,       \* devices authorized so far
  breaks,       \* used budget
  seen,         \* observation: devices wholly stored during a request
  mixed         \* observation: a save or delete was cut off, was not alone, or
                \* could not take its key back

files    == <<key, meta>>
loaded   == <<id, secret>>
tokens   == <<token, fresh>>
observed == <<seen, mixed>>
vars     == <<files, revoked, pc, loaded, tokens, logins, breaks, observed>>

Processes == Clis \cup {Server}
Devices   == 1..MaxLogins

Break == breaks < MaxBreaks /\ breaks' = breaks + 1

Goto(p, step) == pc' = [pc EXCEPT ![p] = step]

\* An operation ends; what it held in memory is zeroed or goes with its process.
Done(p) ==
  /\ Goto(p, "idle")
  /\ id' = [id EXCEPT ![p] = 0] /\ secret' = [secret EXCEPT ![p] = 0]

Saving == {"dropKey", "putKey", "dropMeta", "putMeta", "withdraw"}
Busy(p) == pc[p] \in Saving \cup {"deleteKey", "deleteMeta"}
Alone(p) == \A q \in Processes \ {p} : ~Busy(q)

\* Every step notes for the requests under way what is stored after it.
Note ==
  seen' = [p \in Processes |->
             IF pc'[p] \in {"loadMeta", "loadKey", "challenge", "sign"}
               THEN (IF pc[p] = "idle" THEN {} ELSE seen[p])
                    \cup (IF key' = meta' THEN {meta'} \ {0} ELSE {})
               ELSE {}]

-----------------------------------------------------------------------------
(* Login, Logout *)

\* The device flow is started and polled; another poll changes nothing.
StartLogin(p) ==
  /\ pc[p] = "idle" /\ p \in Clis
  /\ Goto(p, "poll")
  /\ UNCHANGED <<files, revoked, loaded, tokens, logins, breaks, mixed>>

Approved(p) ==
  /\ pc[p] = "poll"
  /\ logins < MaxLogins
  /\ logins' = logins + 1
  /\ id' = [id EXCEPT ![p] = logins + 1]
  /\ Goto(p, "dropKey")
  /\ mixed' = (mixed \/ ~Alone(p))
  /\ UNCHANGED <<files, revoked, secret, tokens, breaks>>

\* Denied, expired, cancelled, or the service cannot be reached.
NotApproved(p) ==
  /\ pc[p] = "poll"
  /\ Done(p)
  /\ UNCHANGED <<files, revoked, tokens, logins, breaks, mixed>>

\* writeAtomic has written a temporary file, removes the old one ...
DropKey(p) ==
  /\ pc[p] = "dropKey"
  /\ key' = 0
  /\ Goto(p, "putKey")
  /\ mixed' = ~Alone(p)
  /\ UNCHANGED <<meta, revoked, loaded, tokens, logins, breaks>>

\* ... and renames its own to the name.
PutKey(p) ==
  /\ pc[p] = "putKey"
  /\ key' = id[p]
  /\ Goto(p, "dropMeta")
  /\ UNCHANGED <<meta, revoked, loaded, tokens, logins, breaks, mixed>>

DropMeta(p) ==
  /\ pc[p] = "dropMeta"
  /\ meta' = 0
  /\ Goto(p, "putMeta")
  /\ UNCHANGED <<key, revoked, loaded, tokens, logins, breaks, mixed>>

\* clearToken concerns only this process, which ends.
PutMeta(p) ==
  /\ pc[p] = "putMeta"
  /\ meta' = id[p]
  /\ Done(p)
  /\ UNCHANGED <<key, revoked, tokens, logins, breaks, mixed>>

\* Fault: the key stays.
MetaFailsKeeps(p) ==
  /\ pc[p] \in {"dropMeta", "putMeta"}
  /\ Break
  /\ Done(p)
  /\ UNCHANGED <<files, revoked, tokens, logins, mixed>>

\* The metadata cannot be written: Save takes the new key back.
MetaFails(p) ==
  /\ pc[p] \in {"dropMeta", "putMeta"}
  /\ Break
  /\ Goto(p, "withdraw")
  /\ UNCHANGED <<files, revoked, loaded, tokens, logins, mixed>>

\* An error of this removal is dropped: the new key is left with the old
\* metadata, or with none.
Withdraw(p, ok) ==
  /\ pc[p] = "withdraw"
  /\ IF ok THEN key' = 0 /\ UNCHANGED mixed ELSE mixed' = TRUE /\ UNCHANGED key
  /\ Done(p)
  /\ UNCHANGED <<meta, revoked, tokens, logins, breaks>>

\* Before the old key is removed a write fails without a trace; after, the
\* key is missing.
KeyFails(p) ==
  /\ pc[p] \in {"dropKey", "putKey"}
  /\ Break
  /\ Done(p)
  /\ UNCHANGED <<files, revoked, tokens, logins, mixed>>

StartLogout(p) ==
  /\ pc[p] = "idle" /\ p \in Clis
  /\ Goto(p, "deleteKey")
  /\ mixed' = (mixed \/ ~Alone(p))
  /\ UNCHANGED <<files, revoked, loaded, tokens, logins, breaks>>

\* A file that cannot be removed is reported, and the other removed anyway.
DeleteKey(p, ok) ==
  /\ pc[p] = "deleteKey"
  /\ IF ok THEN key' = 0 /\ mixed' = ~Alone(p) /\ UNCHANGED breaks
           ELSE Break /\ UNCHANGED <<key, mixed>>
  /\ Goto(p, "deleteMeta")
  /\ UNCHANGED <<meta, revoked, loaded, tokens, logins>>

DeleteMeta(p, ok) ==
  /\ pc[p] = "deleteMeta"
  /\ IF ok THEN meta' = 0 /\ UNCHANGED breaks ELSE Break /\ UNCHANGED meta
  /\ Done(p)
  /\ UNCHANGED <<key, revoked, tokens, logins, mixed>>

-----------------------------------------------------------------------------
(* Requests *)

\* token(): the daemon uses a fresh token again; a command has none yet.
Request(p) ==
  /\ pc[p] = "idle"
  /\ ~(p = Server /\ token # 0 /\ fresh)
  /\ Goto(p, "loadMeta")
  /\ UNCHANGED <<files, revoked, loaded, tokens, logins, breaks, mixed>>

\* Fault: the credential behind the last token is still in memory.
LoadMetaOnce(p) ==
  /\ pc[p] = "loadMeta"
  /\ IF meta = 0 /\ p = Server /\ token # 0
       THEN /\ id' = [id EXCEPT ![p] = token] /\ secret' = [secret EXCEPT ![p] = token]
            /\ Goto(p, "challenge")
       ELSE IF meta = 0 THEN Done(p)
       ELSE Goto(p, "loadKey") /\ id' = [id EXCEPT ![p] = meta] /\ UNCHANGED secret
  /\ UNCHANGED <<files, revoked, tokens, logins, breaks, mixed>>

LoadMeta(p) ==
  /\ pc[p] = "loadMeta"
  /\ IF meta = 0 THEN Done(p)
     ELSE Goto(p, "loadKey") /\ id' = [id EXCEPT ![p] = meta] /\ UNCHANGED secret
  /\ UNCHANGED <<files, revoked, tokens, logins, breaks, mixed>>

LoadKey(p) ==
  /\ pc[p] = "loadKey"
  /\ IF key = 0 THEN Done(p)
     ELSE Goto(p, "challenge") /\ secret' = [secret EXCEPT ![p] = key] /\ UNCHANGED id
  /\ UNCHANGED <<files, revoked, tokens, logins, breaks, mixed>>

\* The service, as the client uses it: a challenge for a device it knows.
Challenge(p) ==
  /\ pc[p] = "challenge"
  /\ IF id[p] \in revoked THEN Done(p) ELSE Goto(p, "sign") /\ UNCHANGED loaded
  /\ UNCHANGED <<files, revoked, tokens, logins, breaks, mixed>>

\* postJSON: the service does not answer, or not with a challenge or a token.
NoAnswer(p) ==
  /\ pc[p] \in {"challenge", "sign"}
  /\ Done(p)
  /\ UNCHANGED <<files, revoked, tokens, logins, breaks, mixed>>

\* It accepts the signature of the device's own key.
Accepted(p) == secret[p] = id[p] /\ id[p] \notin revoked

Refused(p) ==
  /\ pc[p] = "sign" /\ ~Accepted(p)
  /\ Done(p)
  /\ UNCHANGED <<files, revoked, tokens, logins, breaks, mixed>>

Granted(p) ==
  /\ pc[p] = "sign" /\ Accepted(p)
  /\ IF p = Server THEN token' = id[p] /\ fresh' = TRUE ELSE UNCHANGED tokens
  /\ Done(p)
  /\ UNCHANGED <<files, revoked, logins, breaks, mixed>>

-----------------------------------------------------------------------------
(* Environment *)

Killed(p) ==
  /\ p \in Clis /\ Busy(p)
  /\ Break
  /\ Done(p)
  /\ mixed' = TRUE
  /\ UNCHANGED <<files, revoked, tokens, logins>>

TokenEnds ==
  /\ fresh
  /\ fresh' = FALSE
  /\ UNCHANGED <<files, revoked, pc, loaded, token, logins, breaks, mixed>>

Revoke(d) ==
  /\ d \in 1..logins \ revoked
  /\ Break
  /\ revoked' = revoked \cup {d}
  /\ UNCHANGED <<files, pc, loaded, tokens, logins, mixed>>

-----------------------------------------------------------------------------
Init ==
  /\ key = 0 /\ meta = 0
  /\ revoked = {} /\ logins = 0 /\ breaks = 0
  /\ pc = [p \in Processes |-> "idle"]
  /\ id = [p \in Processes |-> 0] /\ secret = [p \in Processes |-> 0]
  /\ token = 0 /\ fresh = FALSE
  /\ seen = [p \in Processes |-> {}] /\ mixed = FALSE

Login(p) ==
  \/ StartLogin(p) \/ Approved(p) \/ NotApproved(p) \/ DropKey(p) \/ PutKey(p)
  \/ DropMeta(p) \/ PutMeta(p) \/ MetaFails(p) \/ KeyFails(p)
  \/ \E ok \in BOOLEAN : Withdraw(p, ok)

Logout(p) == StartLogout(p) \/ \E ok \in BOOLEAN : DeleteKey(p, ok) \/ DeleteMeta(p, ok)

Authenticate(p) ==
  \/ Request(p) \/ LoadMeta(p) \/ LoadKey(p) \/ Challenge(p)
  \/ NoAnswer(p) \/ Refused(p) \/ Granted(p)

Act(p) == Login(p) \/ Logout(p) \/ Authenticate(p) \/ Killed(p)

Next ==
  /\ TokenEnds \/ (\E p \in Processes : Act(p)) \/ (\E d \in Devices : Revoke(d))
  /\ Note

Spec == Init /\ [][Next]_vars

-----------------------------------------------------------------------------
(* Properties *)

Steps ==
  Saving \cup {"deleteKey", "deleteMeta", "idle", "poll", "loadMeta", "loadKey", "challenge",
                "sign"}

\* The type invariant of the files, the processes and the daemon's token.
TypeOK ==
  LET Known == 0..logins IN
  /\ logins \in 0..MaxLogins /\ breaks \in 0..MaxBreaks
  /\ key \in Known /\ meta \in Known /\ token \in Known
  /\ revoked \subseteq 1..logins
  /\ id \in [Processes -> Known] /\ secret \in [Processes -> Known]
  /\ pc \in [Processes -> Steps]
  /\ fresh \in BOOLEAN /\ mixed \in BOOLEAN
  /\ seen \in [Processes -> SUBSET (1..logins)]

\* Whatever logins and logouts that were not cut off and did not overlap have
\* done, some of them failing halfway, the two files never name different
\* devices: the stored credential is usable or reported as absent (Save takes
\* the key back, Load reports a missing file as not signed in).  A key that
\* cannot be taken back stays, and breaks this.
CredentialWhole ==
  ~mixed /\ (\A p \in Processes : ~Busy(p)) => meta = 0 \/ key \in {0, meta}

\* A signature the service accepts is that of a device that was wholly stored
\* at some moment of this request, although other processes replace the two
\* files between its reads: after a logout the daemon's token may live on
\* until it expires, but it is not renewed (token, Load, Save, Delete).
SignedFromStore ==
  \A p \in Processes : pc[p] = "sign" /\ Accepted(p) => id[p] \in seen[p]
=============================================================================
