---------------------------- MODULE CloudProofs ----------------------------
(***************************************************************************)
(* Proofs about Periphery, for any constants: the account a user has with  *)
(* Backpack Cloud and the streams that it answers with.                    *)
(***************************************************************************)
EXTENDS Periphery, FiniteSetTheorems, TLAPS

-----------------------------------------------------------------------------
(* CloudSession *)

AccountBounds == MaxLogins \in Nat /\ MaxBreaks \in Nat

\* The steps of a request that the observation `seen` follows.
Requesting == {"loadMeta", "loadKey", "challenge", "sign"}

\* The types without `seen`, which Note changes in every step.
NumbersOK ==
  /\ acLogins \in 0..MaxLogins /\ acBreaks \in 0..MaxBreaks
  /\ acKey \in 0..acLogins /\ acMeta \in 0..acLogins /\ acToken \in 0..acLogins
  /\ acRevoked \subseteq 1..acLogins
  /\ acId \in [Account!Processes -> 0..acLogins] /\ acSecret \in [Account!Processes -> 0..acLogins]
  /\ acPc \in [Account!Processes -> Account!Steps]

StateOK == NumbersOK /\ acFresh \in BOOLEAN /\ acMixed \in BOOLEAN

-----------------------------------------------------------------------------
(* CloudSession: the invariant *)

\* No process is still to write the key of this device.
Written(d) ==
  \A q \in Account!Processes : acPc[q] \in {"dropKey", "putKey"} => acId[q] # d

\* A save has a device of its own.
OwnDevices ==
  \A p, q \in Account!Processes :
    /\ acPc[p] \in Account!Saving => acId[p] # 0
    /\ acPc[p] \in Account!Saving /\ acPc[q] \in Account!Saving /\ acId[p] = acId[q] => p = q

\* What a request has loaded: a device that device.json named, whose key is the
\* stored one only if both were stored together.
Reads(p) ==
  /\ acPc[p] = "loadKey" =>
       acId[p] # 0 /\ Written(acId[p]) /\ (acKey = acId[p] => acId[p] \in acSeen[p])
  /\ acPc[p] \in {"challenge", "sign"} => (acSecret[p] = acId[p] => acId[p] \in acSeen[p])

Whole == acMeta = 0 \/ acKey \in {0, acMeta}

\* What the two files are at each step of a save or a delete that is alone.
Files(p) ==
  /\ acPc[p] \in {"dropKey", "deleteKey", "deleteMeta"} => Whole
  /\ acPc[p] = "putKey" => acKey = 0
  /\ acPc[p] = "dropMeta" => acKey = acId[p]
  /\ acPc[p] = "putMeta" => acKey = acId[p] /\ acMeta = 0

Saves ==
  ~acMixed =>
    /\ \A p \in Account!Processes : Account!Busy(p) => Account!Alone(p) /\ Files(p)
    /\ (\A p \in Account!Processes : ~Account!Busy(p)) => Whole

CInv ==
  /\ Account!TypeOK /\ OwnDevices /\ Saves
  /\ acMeta # 0 => Written(acMeta)
  /\ \A p \in Account!Processes : Reads(p)

-----------------------------------------------------------------------------
(* CloudSession: types *)

LEMMA LoginNumbers ==
  ASSUME AccountBounds, NumbersOK, NEW p \in Account!Processes, Account!Login(p)
  PROVE  NumbersOK' /\ acLogins <= acLogins'
<1>1. CASE Account!Approved(p)
  <2>1. /\ acLogins \in Nat /\ acLogins' = acLogins + 1 /\ acLogins' \in 0..MaxLogins
        /\ acPc' = [acPc EXCEPT ![p] = "dropKey"] /\ acId' = [acId EXCEPT ![p] = acLogins']
        /\ UNCHANGED <<acKey, acMeta, acRevoked, acSecret, acToken, acBreaks>>
    BY <1>1 DEF Account!Approved, NumbersOK, AccountBounds, Account!Goto, Account!files,
       Account!tokens
  <2>2. 0..acLogins \subseteq 0..acLogins' /\ 1..acLogins \subseteq 1..acLogins' /\ acLogins' \in 0..acLogins'
    BY <2>1
  <2>3. acId' \in [Account!Processes -> 0..acLogins'] /\ acSecret' \in [Account!Processes -> 0..acLogins']
    BY <2>1, <2>2 DEF NumbersOK
  <2> QED
    BY <2>1, <2>2, <2>3 DEF NumbersOK, Account!Steps, Account!Saving
<1>2. CASE Account!DropKey(p) \/ Account!PutKey(p) \/ Account!DropMeta(p) \/ Account!StartLogin(p)
  <2>1. UNCHANGED <<acRevoked, acId, acSecret, acToken, acLogins, acBreaks>>
    BY <1>2 DEF Account!DropKey, Account!PutKey, Account!DropMeta, Account!StartLogin,
       Account!loaded, Account!tokens
  <2>2. acKey' \in 0..acLogins /\ acMeta' \in 0..acLogins
    BY <1>2 DEF Account!DropKey, Account!PutKey, Account!DropMeta, Account!StartLogin,
       Account!files, NumbersOK, AccountBounds
  <2>3. acPc' \in [Account!Processes -> Account!Steps]
    BY <1>2 DEF Account!DropKey, Account!PutKey, Account!DropMeta, Account!StartLogin,
       Account!Goto, NumbersOK, Account!Steps, Account!Saving
  <2> QED
    BY <2>1, <2>2, <2>3 DEF NumbersOK
<1>3. CASE Account!NotApproved(p) \/ Account!PutMeta(p)
  <2>1. UNCHANGED <<acRevoked, acToken, acLogins, acBreaks>> /\ Account!Done(p)
    BY <1>3 DEF Account!NotApproved, Account!PutMeta, Account!tokens
  <2>2. acKey' \in 0..acLogins /\ acMeta' \in 0..acLogins
    BY <1>3 DEF Account!NotApproved, Account!PutMeta, Account!files,
       NumbersOK, AccountBounds
  <2> QED
    BY <2>1, <2>2 DEF NumbersOK, Account!Done, Account!Goto, Account!Steps, AccountBounds
<1>4. CASE Account!MetaFails(p) \/ Account!KeyFails(p)
  <2>1. UNCHANGED <<acKey, acMeta, acRevoked, acToken, acLogins>> /\ Account!Break
    BY <1>4 DEF Account!MetaFails, Account!KeyFails, Account!files, Account!tokens
  <2>2. acBreaks' \in 0..MaxBreaks
    BY <2>1 DEF Account!Break, AccountBounds, NumbersOK
  <2>3. \/ Account!Done(p)
        \/ acPc' = [acPc EXCEPT ![p] = "withdraw"] /\ UNCHANGED <<acId, acSecret>>
    BY <1>4 DEF Account!MetaFails, Account!KeyFails, Account!Goto, Account!loaded
  <2> QED
    BY <2>1, <2>2, <2>3 DEF NumbersOK, Account!Done, Account!Goto, Account!Steps,
       Account!Saving, AccountBounds
<1>5. ASSUME NEW ok \in BOOLEAN, Account!Withdraw(p, ok) PROVE NumbersOK' /\ acLogins <= acLogins'
  <2>1. /\ UNCHANGED <<acMeta, acRevoked, acToken, acLogins>> /\ Account!Done(p)
        /\ acKey' \in {0, acKey} /\ (acBreaks' = acBreaks \/ Account!Break)
    BY <1>5 DEF Account!Withdraw, Account!tokens
  <2>2. acBreaks' \in 0..MaxBreaks
    BY <2>1 DEF Account!Break, AccountBounds, NumbersOK
  <2> QED
    BY <2>1, <2>2 DEF NumbersOK, Account!Done, Account!Goto, Account!Steps, AccountBounds
<1> QED
  BY <1>1, <1>2, <1>3, <1>4, <1>5 DEF Account!Login

LEMMA OtherNumbers ==
  ASSUME AccountBounds, NumbersOK, NEW p \in Account!Processes, Account!Logout(p) \/ Account!Killed(p) \/ Account!Authenticate(p)
  PROVE  NumbersOK' /\ acLogins <= acLogins'
<1>1. CASE Account!Logout(p) \/ Account!Killed(p)
  <2>1. /\ UNCHANGED <<acRevoked, acToken, acLogins>>
        /\ acKey' \in {0, acKey} /\ acMeta' \in {0, acMeta}
        /\ acBreaks' = acBreaks \/ Account!Break
    BY <1>1 DEF Account!Logout, Account!Killed, Account!StartLogout, Account!DeleteKey,
       Account!DeleteMeta, Account!files, Account!tokens
  <2>2. \/ Account!Done(p)
        \/ /\ \E step \in Account!Steps : acPc' = [acPc EXCEPT ![p] = step]
           /\ UNCHANGED <<acId, acSecret>>
    BY <1>1 DEF Account!Logout, Account!Killed, Account!StartLogout, Account!DeleteKey,
       Account!DeleteMeta, Account!Goto, Account!loaded, Account!Steps
  <2>3. acBreaks' \in 0..MaxBreaks
    BY <2>1 DEF Account!Break, AccountBounds, NumbersOK
  <2> QED
    BY <2>1, <2>2, <2>3 DEF NumbersOK, Account!Done, Account!Goto, Account!Steps,
       AccountBounds
<1>2. CASE Account!Authenticate(p)
  <2>1. UNCHANGED <<acKey, acMeta, acRevoked, acLogins, acBreaks>>
    BY <1>2 DEF Account!Authenticate, Account!Request, Account!LoadMeta,
       Account!LoadKey, Account!Challenge, Account!NoAnswer, Account!Refused,
       Account!Granted, Account!files
  <2>2. acToken' \in 0..acLogins
    BY <1>2 DEF Account!Authenticate, Account!Request, Account!LoadMeta,
       Account!LoadKey, Account!Challenge, Account!NoAnswer, Account!Refused,
       Account!Granted, Account!tokens, NumbersOK
  <2>3. \/ Account!Done(p)
        \/ /\ \E step \in Account!Steps : acPc' = [acPc EXCEPT ![p] = step]
           /\ acId' = acId \/ acId' = [acId EXCEPT ![p] = acMeta]
           /\ acSecret' = acSecret \/ acSecret' = [acSecret EXCEPT ![p] = acKey]
    BY <1>2 DEF Account!Authenticate, Account!Request, Account!LoadMeta,
       Account!LoadKey, Account!Challenge, Account!NoAnswer, Account!Refused,
       Account!Granted, Account!Goto, Account!loaded, Account!Steps
  <2> QED
    BY <2>1, <2>2, <2>3 DEF NumbersOK, Account!Done, Account!Goto, Account!Steps,
       AccountBounds
<1> QED
  BY <1>1, <1>2

LEMMA ActBooleans ==
  ASSUME StateOK, NEW p \in Account!Processes, Account!Act(p)
  PROVE  acFresh' \in BOOLEAN /\ acMixed' \in BOOLEAN
<1>1. acFresh' = acFresh \/ acFresh' = TRUE
  BY DEF Account!Act, Account!Login, Account!Logout, Account!Authenticate,
     Account!Killed, Account!StartLogin, Account!Approved, Account!NotApproved,
     Account!DropKey,
     Account!PutKey, Account!DropMeta, Account!PutMeta, Account!MetaFails, Account!Withdraw, Account!KeyFails, Account!StartLogout, Account!DeleteKey,
     Account!DeleteMeta, Account!Request, Account!LoadMeta, Account!LoadKey, Account!Challenge, Account!NoAnswer, Account!Refused, Account!Granted, Account!tokens
<1>2. ASSUME Account!Login(p) PROVE acMixed' \in BOOLEAN
  BY <1>2, Zenon DEF StateOK, NumbersOK, Account!Login, Account!StartLogin,
     Account!Approved, Account!NotApproved,
     Account!DropKey, Account!PutKey, Account!DropMeta,
     Account!PutMeta, Account!MetaFails, Account!Withdraw, Account!KeyFails
<1>3. ASSUME Account!Logout(p) \/ Account!Killed(p) PROVE acMixed' \in BOOLEAN
  BY <1>3, Zenon DEF StateOK, NumbersOK, Account!Logout, Account!Killed,
     Account!StartLogout, Account!DeleteKey, Account!DeleteMeta
<1>4. ASSUME Account!Authenticate(p) PROVE acMixed' \in BOOLEAN
  BY <1>4, Zenon DEF StateOK, NumbersOK, Account!Authenticate, Account!Request,
     Account!LoadMeta, Account!LoadKey,
     Account!Challenge, Account!NoAnswer,
     Account!Refused, Account!Granted
<1>5. acFresh' \in BOOLEAN
  BY <1>1, Zenon DEF StateOK, NumbersOK
<1> QED
  BY <1>2, <1>3, <1>4, <1>5, Zenon DEF Account!Act

LEMMA ActTypes ==
  ASSUME AccountBounds, StateOK, NEW p \in Account!Processes, Account!Act(p)
  PROVE  StateOK' /\ acLogins <= acLogins'
<1>1. NumbersOK
  BY DEF StateOK, NumbersOK
<1>2. NumbersOK' /\ acLogins <= acLogins'
  BY <1>1, LoginNumbers, OtherNumbers DEF Account!Act
<1>3. acFresh' \in BOOLEAN /\ acMixed' \in BOOLEAN
  BY ActBooleans
<1> QED
  BY <1>2, <1>3, Zenon DEF StateOK, NumbersOK

\* What Note adds: a request keeps what was wholly stored since it began.
LEMMA NoteKeeps ==
  ASSUME AccountBounds, Account!TypeOK, StateOK', acLogins <= acLogins', Account!Note
  PROVE  /\ Account!TypeOK'
         /\ \A p \in Account!Processes :
              acPc[p] # "idle" /\ acPc'[p] \in Requesting =>
                /\ acSeen[p] \subseteq acSeen'[p]
                /\ acKey' = acMeta' /\ acMeta' # 0 => acMeta' \in acSeen'[p]
<1>1. /\ acLogins \in Nat /\ acLogins' \in Nat /\ acSeen \in [Account!Processes -> SUBSET (1..acLogins)]
      /\ acKey' \in 0..acLogins' /\ acMeta' \in 0..acLogins'
  BY DEF Account!TypeOK, StateOK, NumbersOK, AccountBounds
<1>2. 1..acLogins \subseteq 1..acLogins' /\ {acMeta'} \ {0} \subseteq 1..acLogins'
  BY <1>1
<1>3. acSeen' \in [Account!Processes -> SUBSET (1..acLogins')]
  BY <1>1, <1>2 DEF Account!Note
<1>4. ASSUME NEW p \in Account!Processes, acPc[p] # "idle", acPc'[p] \in Requesting
      PROVE  acSeen'[p] = acSeen[p] \cup (IF acKey' = acMeta' THEN {acMeta'} \ {0} ELSE {})
  BY <1>4 DEF Account!Note, Requesting
<1> QED
  BY <1>3, <1>4 DEF Account!TypeOK, StateOK, NumbersOK

\* A process moves alone: what the others hold stays.
LEMMA OneMoves ==
  ASSUME StateOK, NEW p \in Account!Processes, Account!Act(p)
  PROVE  \A q \in Account!Processes \ {p} :
           acPc'[q] = acPc[q] /\ acId'[q] = acId[q] /\ acSecret'[q] = acSecret[q]
<1>1. CASE Account!Login(p)
  BY <1>1 DEF Account!Login, Account!StartLogin, Account!Approved, Account!NotApproved,
     Account!DropKey, Account!PutKey, Account!DropMeta, Account!PutMeta,
     Account!MetaFails, Account!Withdraw, Account!KeyFails, Account!Goto, Account!Done, Account!loaded, StateOK, NumbersOK
<1>2. CASE Account!Logout(p) \/ Account!Killed(p)
  BY <1>2 DEF Account!Logout, Account!Killed, Account!StartLogout, Account!DeleteKey,
     Account!DeleteMeta, Account!Goto, Account!Done, Account!loaded,
     StateOK, NumbersOK
<1>3. CASE Account!Authenticate(p)
  BY <1>3 DEF Account!Authenticate, Account!Request, Account!LoadMeta, Account!LoadKey,
     Account!Challenge, Account!NoAnswer, Account!Refused,
     Account!Granted,
     Account!Goto, Account!Done, Account!loaded, StateOK, NumbersOK
<1> QED
  BY <1>1, <1>2, <1>3 DEF Account!Act

\* Where a device comes from, and what becomes of the two files.
LEMMA AccountMoves ==
  ASSUME StateOK, NEW p \in Account!Processes, Account!Act(p)
  PROVE  /\ acPc'[p] \in Account!Saving =>
              \/ acPc[p] \in Account!Saving /\ acId'[p] = acId[p]
              \/ acId'[p] = acLogins + 1 /\ acLogins' = acLogins + 1
         /\ acPc'[p] \in {"dropKey", "putKey"} =>
              \/ acPc[p] \in {"dropKey", "putKey"} /\ acId'[p] = acId[p]
              \/ acId'[p] = acLogins + 1
         /\ acKey' \in {0, acKey} \/ (acPc[p] = "putKey" /\ acKey' = acId[p])
         /\ \/ acMeta' \in {0, acMeta}
            \/ acPc[p] = "putMeta" /\ acMeta' = acId[p] /\ acPc'[p] = "idle"
<1>1. CASE Account!Login(p)
  BY <1>1 DEF Account!Login, Account!StartLogin, Account!Approved, Account!NotApproved,
     Account!DropKey, Account!PutKey, Account!DropMeta, Account!PutMeta,
     Account!MetaFails, Account!Withdraw, Account!KeyFails, Account!Goto, Account!Done, Account!loaded, Account!files, StateOK, NumbersOK, Account!Saving
<1>2. CASE Account!Logout(p) \/ Account!Killed(p)
  BY <1>2 DEF Account!Logout, Account!Killed, Account!StartLogout, Account!DeleteKey,
     Account!DeleteMeta, Account!Goto, Account!Done, Account!loaded, Account!files,
     StateOK, NumbersOK, Account!Saving
<1>3. CASE Account!Authenticate(p)
  BY <1>3 DEF Account!Authenticate, Account!Request, Account!LoadMeta, Account!LoadKey,
     Account!Challenge, Account!NoAnswer, Account!Refused,
     Account!Granted,
     Account!Goto, Account!Done, Account!loaded, Account!files, StateOK, NumbersOK, Account!Saving
<1> QED
  BY <1>1, <1>2, <1>3 DEF Account!Act

\* What a request does: it notes what it reads, and changes no file.
LEMMA RequestMoves ==
  ASSUME StateOK, NEW p \in Account!Processes, Account!Act(p)
  PROVE  /\ acPc'[p] = "loadKey" =>
              /\ acPc[p] = "loadMeta" /\ acId'[p] = acMeta /\ acMeta # 0
              /\ acKey' = acKey /\ acMeta' = acMeta
         /\ acPc'[p] = "challenge" => acPc[p] = "loadKey" /\ acId'[p] = acId[p] /\ acSecret'[p] = acKey
         /\ acPc'[p] = "sign" =>
              acPc[p] = "challenge" /\ acId'[p] = acId[p] /\ acSecret'[p] = acSecret[p]
<1>1. CASE Account!Login(p)
  BY <1>1 DEF Account!Login, Account!StartLogin, Account!Approved, Account!NotApproved,
     Account!DropKey, Account!PutKey, Account!DropMeta, Account!PutMeta,
     Account!MetaFails, Account!Withdraw, Account!KeyFails, Account!Goto, Account!Done, StateOK, NumbersOK
<1>2. CASE Account!Logout(p) \/ Account!Killed(p)
  BY <1>2 DEF Account!Logout, Account!Killed, Account!StartLogout, Account!DeleteKey,
     Account!DeleteMeta, Account!Goto, Account!Done, StateOK,
     NumbersOK
<1>3. CASE Account!Authenticate(p)
  BY <1>3 DEF Account!Authenticate, Account!Request, Account!LoadMeta, Account!LoadKey,
     Account!Challenge, Account!NoAnswer, Account!Refused,
     Account!Granted,
     Account!Goto, Account!Done, Account!loaded, Account!files, StateOK, NumbersOK
<1> QED
  BY <1>1, <1>2, <1>3 DEF Account!Act

-----------------------------------------------------------------------------
(* Every step keeps the invariant *)

LEMMA DevicesStep ==
  ASSUME AccountBounds, CInv, StateOK, NEW p \in Account!Processes, Account!Act(p)
  PROVE  /\ OwnDevices'
         /\ \A d \in 1..acLogins : Written(d) => Written(d)'
         /\ (acMeta # 0 => Written(acMeta))'
<1>1. /\ acLogins \in Nat /\ OwnDevices /\ acMeta \in 0..acLogins /\ (acMeta # 0 => Written(acMeta))
      /\ \A q \in Account!Processes : acId[q] \in 0..acLogins
  BY DEF CInv, StateOK, NumbersOK, AccountBounds
<1>2. \A q \in Account!Processes \ {p} : acPc'[q] = acPc[q] /\ acId'[q] = acId[q]
  BY OneMoves
<1>3. OwnDevices'
  BY <1>1, <1>2, AccountMoves DEF OwnDevices
<1>4. ASSUME NEW d \in 1..acLogins, Written(d) PROVE Written(d)'
  BY <1>1, <1>2, <1>4, AccountMoves DEF Written
<1>5. ASSUME acMeta' # 0
      PROVE  \A q \in Account!Processes : acPc'[q] \in {"dropKey", "putKey"} => acId'[q] # acMeta'
  <2>1. CASE acMeta' = acMeta
    BY <1>1, <1>4, <1>5, <2>1 DEF Written
  <2>2. CASE acPc[p] = "putMeta" /\ acMeta' = acId[p] /\ acPc'[p] = "idle"
    <3>1. ASSUME NEW q \in Account!Processes, acPc'[q] \in {"dropKey", "putKey"}
          PROVE acId'[q] # acMeta'
      <4>1. q # p /\ acPc[q] = acPc'[q] /\ acId'[q] = acId[q]
        BY <1>2, <2>2, <3>1
      <4> QED
        BY <1>1, <2>2, <3>1, <4>1 DEF OwnDevices, Account!Saving
    <3> QED
      BY <3>1
  <2> QED
    BY <1>5, <2>1, <2>2, AccountMoves
<1> QED
  BY <1>3, <1>4, <1>5 DEF Written

LEMMA ReadsStep ==
  ASSUME AccountBounds, CInv, StateOK, StateOK', NEW p \in Account!Processes, Account!Act(p), acLogins <= acLogins', Account!Note
  PROVE  \A q \in Account!Processes : Reads(q)'
<1>1. /\ acLogins \in Nat /\ acMeta \in 0..acLogins /\ (acMeta # 0 => Written(acMeta)) /\ Account!TypeOK
      /\ \A q \in Account!Processes : acId[q] \in 0..acLogins /\ Reads(q)
  BY DEF CInv, StateOK, NumbersOK, AccountBounds
<1>2. \A q \in Account!Processes :
        acPc[q] # "idle" /\ acPc'[q] \in Requesting =>
          /\ acSeen[q] \subseteq acSeen'[q]
          /\ acKey' = acMeta' /\ acMeta' # 0 => acMeta' \in acSeen'[q]
  BY <1>1, NoteKeeps
<1>3. \A d \in 1..acLogins : Written(d) => Written(d)'
  BY DevicesStep
<1>4. ASSUME NEW q \in Account!Processes \ {p} PROVE Reads(q)'
  <2>1. acPc'[q] = acPc[q] /\ acId'[q] = acId[q] /\ acSecret'[q] = acSecret[q]
    BY OneMoves
  <2>2. CASE acPc[q] = "loadKey"
    <3>1. acId[q] \in 1..acLogins /\ Written(acId[q]) /\ (acKey = acId[q] => acId[q] \in acSeen[q])
      BY <1>1, <2>2 DEF Reads
    <3>2. acKey' = acId[q] => acKey = acId[q]
      BY <3>1, AccountMoves DEF Written
    <3>3. acSeen[q] \subseteq acSeen'[q] /\ Written(acId[q])'
      BY <1>2, <1>3, <2>1, <2>2, <3>1 DEF Requesting, Written
    <3>4. acId'[q] # 0 /\ (acKey' = acId'[q] => acId'[q] \in acSeen'[q])
      BY <2>1, <3>1, <3>2, <3>3
    <3>5. Written(acId[q])'
      BY <3>3
    <3> QED
      BY <2>1, <2>2, <3>4, <3>5 DEF Reads
  <2>3. CASE acPc[q] \in {"challenge", "sign"}
    BY <1>1, <1>2, <2>1, <2>3 DEF Reads, Requesting
  <2>4. CASE acPc[q] \notin {"loadKey", "challenge", "sign"}
    BY <2>1, <2>4 DEF Reads
  <2> QED
    BY <2>2, <2>3, <2>4
<1>5. Reads(p)'
  <2>1. ASSUME acPc'[p] = "loadKey"
        PROVE  acId'[p] # 0 /\ Written(acId[p])' /\ (acKey' = acId'[p] => acId'[p] \in acSeen'[p])
    <3>1. /\ acPc[p] = "loadMeta" /\ acId'[p] = acMeta /\ acMeta # 0 /\ acKey' = acKey /\ acMeta' = acMeta
      BY <2>1, RequestMoves
    <3>2. Written(acId[p])'
      BY <1>1, <1>3, <3>1 DEF Written
    <3> QED
      BY <1>2, <2>1, <3>1, <3>2 DEF Requesting
  <2>2. ASSUME acPc'[p] \in {"challenge", "sign"}, acSecret'[p] = acId'[p]
        PROVE  acId'[p] \in acSeen'[p]
    <3>1. acId[p] \in acSeen[p] /\ acId'[p] = acId[p] /\ acPc[p] # "idle"
      BY <1>1, <2>2, RequestMoves DEF Reads
    <3> QED
      BY <1>2, <2>2, <3>1 DEF Requesting
  <2> QED
    BY <2>1, <2>2 DEF Reads
<1> QED
  BY <1>4, <1>5

\* A save or a delete goes on, or comes to its end.
RequestContinues(p) ==
  \/ /\ acPc[p] = "putKey" /\ acPc'[p] = "dropMeta"
     /\ acId'[p] = acId[p] /\ acKey' = acId[p] /\ acMeta' = acMeta
  \/ /\ acPc[p] = "dropMeta" /\ acPc'[p] = "putMeta"
     /\ acId'[p] = acId[p] /\ acKey' = acKey /\ acMeta' = 0
  \/ acPc[p] = "putMeta" /\ acPc'[p] = "idle" /\ acKey' = acKey /\ acMeta' = acId[p]
  \/ acPc'[p] = "withdraw"
  \/ acPc[p] = "withdraw" /\ acPc'[p] = "idle" /\ acKey' = 0 /\ acMeta' = acMeta
  \/ acPc[p] \in {"dropKey", "putKey"} /\ acPc'[p] = "idle" /\ UNCHANGED <<acKey, acMeta>>
  \/ acPc[p] = "deleteKey" /\ acPc'[p] = "deleteMeta" /\ UNCHANGED <<acKey, acMeta>>
  \/ acPc[p] = "deleteMeta" /\ acPc'[p] = "idle" /\ acKey' = acKey /\ acMeta' \in {0, acMeta}

LEMMA ContinuesKeeps ==
  ASSUME NEW p \in Account!Processes, RequestContinues(p), Files(p)
  PROVE  (Account!Busy(p)' => Files(p)') /\ (~Account!Busy(p)' => Whole')
  BY DEF RequestContinues, Files, Account!Busy, Account!Saving, Whole

\* A step of a save or a delete, or one that touches no file.
LEMMA SaveMoves ==
  ASSUME StateOK, NEW p \in Account!Processes, Account!Act(p)
  PROVE  \/ /\ ~Account!Busy(p) /\ acPc'[p] \notin Account!Saving \cup {"deleteKey", "deleteMeta"}
            /\ UNCHANGED <<acKey, acMeta, acMixed>>
         \/ /\ ~Account!Busy(p) /\ acPc'[p] \in {"dropKey", "deleteKey"}
            /\ UNCHANGED <<acKey, acMeta>> /\ acMixed' = (acMixed \/ ~Account!Alone(p))
         \/ /\ \/ acPc[p] = "dropKey" /\ acPc'[p] = "putKey"
               \/ acPc[p] = "deleteKey" /\ acPc'[p] = "deleteMeta"
            /\ acKey' = 0 /\ acMeta' = acMeta /\ acMixed' = ~Account!Alone(p)
         \/ Account!Busy(p) /\ acMixed' = TRUE
         \/ Account!Busy(p) /\ acMixed' = acMixed /\ RequestContinues(p)
<1>1. CASE Account!Login(p)
  <2>1. CASE Account!StartLogin(p) \/ Account!NotApproved(p)
    BY <2>1 DEF Account!StartLogin, Account!NotApproved, Account!Goto, Account!Done,
       Account!Busy, Account!Saving, Account!files, StateOK, NumbersOK
  <2>2. CASE Account!Approved(p)
    <3>1. ~Account!Busy(p) /\ acPc'[p] = "dropKey" /\ UNCHANGED <<acKey, acMeta>>
      BY <2>2 DEF Account!Approved, Account!Goto, Account!Busy, Account!Saving,
         Account!files, StateOK, NumbersOK
    <3>2. acMixed' = (acMixed \/ ~Account!Alone(p))
      BY <2>2, Zenon DEF Account!Approved
    <3> QED
      BY <3>1, <3>2
  <2>3. CASE Account!DropKey(p)
    BY <2>3 DEF Account!DropKey, Account!Goto, StateOK, NumbersOK
  <2>4. CASE Account!PutKey(p) \/ Account!DropMeta(p) \/ Account!PutMeta(p)
    BY <2>4 DEF Account!PutKey, Account!DropMeta, Account!PutMeta, Account!Goto,
       Account!Done, Account!Busy, Account!Saving, Account!loaded, RequestContinues,
       StateOK, NumbersOK
  <2>5. CASE Account!MetaFails(p) \/ Account!KeyFails(p)
    BY <2>5 DEF Account!MetaFails, Account!KeyFails, Account!Goto, Account!Done,
       Account!Busy, Account!Saving, Account!files, RequestContinues, StateOK, NumbersOK
  <2>6. ASSUME NEW ok \in BOOLEAN, Account!Withdraw(p, ok)
        PROVE  Account!Busy(p) /\ (acMixed' = TRUE \/ (acMixed' = acMixed /\ RequestContinues(p)))
    BY <2>6 DEF Account!Withdraw, Account!Goto, Account!Done, Account!Busy,
       Account!Saving, RequestContinues, StateOK, NumbersOK
  <2> QED
    BY <1>1, <2>1, <2>2, <2>3, <2>4, <2>5, <2>6 DEF Account!Login
<1>2. CASE Account!Logout(p) \/ Account!Killed(p)
  BY <1>2 DEF Account!Logout, Account!Killed, Account!StartLogout, Account!DeleteKey,
     Account!DeleteMeta, Account!Goto, Account!Done, Account!Busy, Account!Saving,
     Account!files, RequestContinues, StateOK, NumbersOK
<1>3. CASE Account!Authenticate(p)
  BY <1>3 DEF Account!Authenticate, Account!Request, Account!LoadMeta, Account!LoadKey,
     Account!Challenge, Account!NoAnswer, Account!Refused,
     Account!Granted,
     Account!Goto, Account!Done, Account!Busy, Account!Saving, Account!files, StateOK, NumbersOK
<1> QED
  BY <1>1, <1>2, <1>3 DEF Account!Act

LEMMA SavesStep ==
  ASSUME CInv, StateOK, NEW p \in Account!Processes, Account!Act(p)
  PROVE  Saves'
<1> SUFFICES ASSUME ~acMixed'
             PROVE  /\ \A q \in Account!Processes : Account!Busy(q)' => Account!Alone(q)' /\ Files(q)'
                    /\ (\A q \in Account!Processes : ~Account!Busy(q)') => Whole'
  BY DEF Saves
<1>0. /\ Saves /\ \A q \in Account!Processes \ {p} : (Account!Busy(q) <=> Account!Busy(q)') /\ acPc'[q] = acPc[q] /\ acId'[q] = acId[q]
  BY OneMoves DEF CInv, Account!Busy
<1>1. CASE /\ ~Account!Busy(p) /\ acPc'[p] \notin Account!Saving \cup {"deleteKey", "deleteMeta"}
           /\ UNCHANGED <<acKey, acMeta, acMixed>>
  <2>1. ~Account!Busy(p)'
    BY <1>1 DEF Account!Busy
  <2>2. /\ \A q \in Account!Processes : Account!Busy(q) => Account!Alone(q) /\ Files(q)
        /\ (\A q \in Account!Processes : ~Account!Busy(q)) => Whole
    BY <1>0, <1>1 DEF Saves
  <2> QED
    BY <1>0, <1>1, <2>1, <2>2 DEF Account!Alone, Files, Whole
<1>2. CASE /\ ~Account!Busy(p) /\ acPc'[p] \in {"dropKey", "deleteKey"}
           /\ UNCHANGED <<acKey, acMeta>> /\ acMixed' = (acMixed \/ ~Account!Alone(p))
  <2>1. ~acMixed /\ \A q \in Account!Processes \ {p} : ~Account!Busy(q) /\ ~Account!Busy(q)'
    BY <1>0, <1>2 DEF Account!Alone
  <2>2. Whole
    BY <1>0, <1>2, <2>1 DEF Saves
  <2>3. Whole' /\ Account!Busy(p)'
    BY <1>2, <2>2 DEF Whole, Account!Busy, Account!Saving
  <2> QED
    BY <1>2, <2>1, <2>3 DEF Account!Alone, Files
<1>3. CASE /\ \/ acPc[p] = "dropKey" /\ acPc'[p] = "putKey"
              \/ acPc[p] = "deleteKey" /\ acPc'[p] = "deleteMeta"
           /\ acKey' = 0 /\ acMeta' = acMeta /\ acMixed' = ~Account!Alone(p)
  <2>1. Account!Busy(p)' /\ \A q \in Account!Processes \ {p} : ~Account!Busy(q)'
    BY <1>0, <1>3 DEF Account!Alone, Account!Busy, Account!Saving
  <2>2. Whole'
    BY <1>3 DEF Whole
  <2> QED
    BY <1>3, <2>1, <2>2 DEF Account!Alone, Files
<1>4. CASE Account!Busy(p) /\ acMixed' = TRUE
  BY <1>4
<1>5. CASE Account!Busy(p) /\ acMixed' = acMixed /\ RequestContinues(p)
  <2>1. Files(p) /\ \A q \in Account!Processes \ {p} : ~Account!Busy(q) /\ ~Account!Busy(q)'
    BY <1>0, <1>5 DEF Saves, Account!Alone
  <2>2. (Account!Busy(p)' => Files(p)') /\ (~Account!Busy(p)' => Whole')
    BY <1>5, <2>1, ContinuesKeeps
  <2> QED
    BY <2>1, <2>2 DEF Account!Alone
<1> QED
  BY <1>1, <1>2, <1>3, <1>4, <1>5, SaveMoves

LEMMA CInit ==
  ASSUME AccountBounds
  PROVE  Account!Init => CInv
<1>1. Account!Init => acFresh \in BOOLEAN /\ acMixed \in BOOLEAN
  BY Zenon DEF Account!Init
<1>2. Account!Init => Account!TypeOK
  BY <1>1 DEF Account!Init, Account!TypeOK, AccountBounds, Account!Steps
<1> QED
  BY <1>2 DEF Account!Init, CInv, OwnDevices, Saves, Reads, Whole, Account!Busy,
     Account!Saving

LEMMA CStep ==
  ASSUME AccountBounds
  PROVE  CInv /\ [Account!Next]_(Account!vars) => CInv'
<1> SUFFICES ASSUME CInv, [Account!Next]_(Account!vars) PROVE CInv'
  OBVIOUS
<1>0. Account!TypeOK /\ StateOK
  BY Zenon DEF CInv, Account!TypeOK, StateOK, NumbersOK
<1>1. ASSUME NEW p \in Account!Processes, Account!Act(p), Account!Note PROVE CInv'
  <2>1. StateOK' /\ acLogins <= acLogins'
    BY <1>0, <1>1, ActTypes
  <2>2. Account!TypeOK'
    BY <1>0, <1>1, <2>1, NoteKeeps
  <2>3. OwnDevices' /\ (acMeta # 0 => Written(acMeta))'
    BY <1>0, <1>1, DevicesStep
  <2>4. \A q \in Account!Processes : Reads(q)'
    BY <1>0, <1>1, <2>1, ReadsStep
  <2>5. Saves'
    BY <1>0, <1>1, SavesStep
  <2> QED
    BY <2>2, <2>3, <2>4, <2>5 DEF CInv
\* A token that ends, a device that is revoked: no process moves.
<1>2. ASSUME Account!TokenEnds \/ (\E d \in Account!Devices : Account!Revoke(d)), Account!Note
      PROVE CInv'
  <2>1. UNCHANGED <<acKey, acMeta, acPc, acId, acSecret, acToken, acLogins, acMixed>>
    BY <1>2 DEF Account!TokenEnds, Account!Revoke, Account!files, Account!loaded,
       Account!tokens
  <2>2. acFresh' \in BOOLEAN /\ acMixed' \in BOOLEAN
    <3>1. acFresh' \in BOOLEAN
      <4>1. acFresh' = FALSE \/ acFresh' = acFresh
        BY <1>2 DEF Account!TokenEnds, Account!Revoke, Account!tokens
      <4> QED
        BY <1>0, <4>1, Zenon DEF StateOK, NumbersOK
    <3> QED
      BY <1>0, <2>1, <3>1, Zenon DEF StateOK, NumbersOK
  <2>3. acRevoked' \subseteq 1..acLogins' /\ acBreaks' \in 0..MaxBreaks
    <3>1. CASE Account!TokenEnds
      <4>1. UNCHANGED <<acRevoked, acBreaks>>
        BY <3>1 DEF Account!TokenEnds
      <4> QED
        BY <1>0, <2>1, <4>1 DEF StateOK, NumbersOK
    <3>2. ASSUME NEW d \in Account!Devices, Account!Revoke(d)
          PROVE  acRevoked' \subseteq 1..acLogins' /\ acBreaks' \in 0..MaxBreaks
      <4>1. d \in 1..acLogins /\ acRevoked' = acRevoked \cup {d} /\ Account!Break
        BY <3>2 DEF Account!Revoke
      <4> QED
        BY <1>0, <2>1, <4>1 DEF StateOK, NumbersOK, Account!Break, AccountBounds
    <3> QED
      BY <1>2, <3>1, <3>2
  <2>4. StateOK'
    <3>1. NumbersOK'
      BY <1>0, <2>1, <2>3 DEF StateOK, NumbersOK
    <3> QED
      BY <2>2, <3>1, Zenon DEF StateOK, NumbersOK
  <2>5. acLogins <= acLogins'
    BY <1>0, <2>1 DEF StateOK, NumbersOK, AccountBounds
  <2>6. Account!TypeOK' /\ \A p \in Account!Processes :
          acPc[p] # "idle" /\ acPc'[p] \in Requesting => acSeen[p] \subseteq acSeen'[p]
    BY <1>0, <1>2, <2>4, <2>5, NoteKeeps
  <2>7. OwnDevices' /\ Saves' /\ (acMeta # 0 => Written(acMeta))'
    BY <2>1 DEF CInv, OwnDevices, Saves, Written, Account!Busy, Account!Alone, Files,
       Whole
  <2>8. ASSUME NEW p \in Account!Processes PROVE Reads(p)'
    BY <2>1, <2>6 DEF CInv, Reads, Requesting, Written
  <2> QED
    BY <2>6, <2>7, <2>8 DEF CInv
<1>3. ASSUME UNCHANGED Account!vars PROVE CInv'
  BY <1>3 DEF Account!vars, Account!files, Account!loaded, Account!tokens,
     Account!observed, CInv, Account!TypeOK, OwnDevices, Saves,
     Written,
     Reads, Account!Busy, Account!Alone, Files, Whole
<1> QED
  BY <1>1, <1>2, <1>3 DEF Account!Next

LEMMA AccountInvariant == Account!Spec => []CInv
<1>1. AccountBounds
  BY AccountAssumption DEF AccountBounds
<1> QED
  BY <1>1, CInit, CStep, PTL DEF Account!Spec

LEMMA AccountTypes == Account!Spec => []Account!TypeOK
<1>1. CInv => Account!TypeOK
  BY DEF CInv
<1> QED
  BY AccountInvariant, <1>1, PTL

LEMMA AccountBehaves == SpecPeriphery => Account!Spec
<1>1. InitPeriphery => Account!Init
  BY DEF InitPeriphery
<1>2. [NextPeriphery]_allVars => [Account!Next]_(Account!vars)
  <2>1. UNCHANGED accountVars => UNCHANGED Account!vars
    BY DEF accountVars, Account!vars, Account!files, Account!loaded, Account!tokens,
       Account!observed
  <2> QED
    BY <2>1 DEF NextPeriphery, allVars
<1> QED
  BY <1>1, <1>2, PTL DEF SpecPeriphery, Account!Spec

\* After logins and logouts that did not overlap and were not cut off, however
\* they failed, the two files do not name different devices (Save, Delete,
\* writeAtomic).
THEOREM CredentialStaysWhole == SpecPeriphery => []CredentialWhole
<1>1. CInv => Account!CredentialWhole
  BY DEF CInv, Saves, Whole, Account!CredentialWhole
<1> QED
  BY AccountInvariant, AccountBehaves, <1>1, PTL DEF CredentialWhole

\* A request signs for a device that was wholly stored during it, whatever
\* other processes do to the two files between its reads (token, Load).
THEOREM SignsWhatWasStored == SpecPeriphery => []SignedFromStore
<1>1. CInv => Account!SignedFromStore
  BY DEF CInv, Reads, Account!SignedFromStore, Account!Accepted
<1> QED
  BY AccountInvariant, AccountBehaves, <1>1, PTL DEF SignedFromStore

-----------------------------------------------------------------------------
(* CloudStream *)

Pieces == Cloud!Starts \cup Cloud!Boundary \cup {"er"}

\* What is true between two reads.  `terminal' is right about a whole terminal
\* frame as long as no text has quoted its marker.
SInv ==
  /\ Cloud!TypeOK
  /\ csStatus = "waiting" => ~csWhole /\ csAnswer = "none"
  /\ csStatus = "copying" => csAnswer = "none"
  /\ csStatus = "ended" =>
       /\ csAnswer = "none" => csTerminal
       /\ csAnswer = "failure" => ~csTerminal
       /\ csAnswer = "error" => ~csWhole
  /\ csWhole => csTerminal
  /\ csAt = "er" => csTerminal
  /\ csAt = "quote" => csQuoted
  /\ csTerminal => csQuoted \/ csWhole \/ csAt = "er"

\* A read brings pieces that follow each other and the piece before.
LEMMA ChunkFollows ==
  ASSUME NEW p \in Pieces, NEW c \in Cloud!Chunks(p)
  PROVE  /\ c \in Seq(Pieces) /\ Len(c) \in Nat \ {0} /\ DOMAIN c = 1..Len(c)
         /\ c[1] \in Cloud!Follow(p)
         /\ \A i \in 2..Len(c) : c[i] \in Cloud!Follow(c[i - 1])
<1>1. PICK n \in 1..MaxRead : c \in [1..n -> Pieces]
  BY DEF Cloud!Chunks, Pieces
<1>2. c \in Seq(Pieces) /\ Len(c) = n /\ n \in Nat \ {0}
  BY <1>1
<1>3. \A i \in 1..n : c[i] \in Cloud!Follow(IF i = 1 THEN p ELSE c[i - 1])
  BY <1>1 DEF Cloud!Chunks
<1> QED
  BY <1>1, <1>2, <1>3

\* The marker of a terminal frame comes in two pieces, "mark" and "er", and
\* "rest" comes after it and nowhere else.
LEMMA Followers ==
  ASSUME NEW p \in Pieces, NEW q \in Cloud!Follow(p)
  PROVE  /\ q \in Pieces
         /\ p = "mark" <=> q = "er"
         /\ p = "er" <=> q = "rest"
  BY DEF Cloud!Follow, Pieces, Cloud!Starts, Cloud!Boundary

\* What the proxy searches: the last piece of what came before, then the read.
LEMMA ProbeIs ==
  ASSUME NEW p \in Pieces, NEW c \in Seq(Pieces)
  PROVE  /\ Len(<<p>> \o c) = Len(c) + 1 /\ DOMAIN (<<p>> \o c) = 1..(Len(c) + 1)
         /\ (<<p>> \o c)[1] = p
         /\ \A i \in 1..Len(c) : (<<p>> \o c)[i + 1] = c[i]
  OBVIOUS

\* A marker is found whenever it is there, in however many reads it came ...
LEMMA MarkerIsFound ==
  ASSUME NEW p \in Pieces, NEW c \in Cloud!Chunks(p),
         NEW i \in 1..Len(c), c[i] = "er"
  PROVE  Cloud!Contains(<<p>> \o c)
<1>1. c \in Seq(Pieces) /\ Len(c) \in Nat
  BY ChunkFollows
<1> DEFINE probe == <<p>> \o c
<1>2. /\ Len(probe) = Len(c) + 1 /\ DOMAIN probe = 1..(Len(c) + 1) /\ probe[1] = p
      /\ \A j \in 1..Len(c) : probe[j + 1] = c[j]
  BY <1>1, ProbeIs
<1>3. probe[i] = "mark"
  <2>1. CASE i = 1
    BY <1>2, <2>1, ChunkFollows, Followers
  <2>2. CASE i # 1
    <3>1. i \in 2..Len(c) /\ i - 1 \in 1..Len(c)
      BY <1>1, <2>2
    <3>2. c[i - 1] \in Pieces /\ c[i] \in Cloud!Follow(c[i - 1])
      BY <1>1, <3>1, ChunkFollows
    <3>3. probe[(i - 1) + 1] = c[i - 1] /\ (i - 1) + 1 = i
      BY <1>1, <1>2, <3>1
    <3> QED
      BY <3>2, <3>3, Followers
  <2> QED
    BY <2>1, <2>2
<1>4. probe[i + 1] = "er" /\ i \in DOMAIN probe /\ i < Len(probe)
  BY <1>1, <1>2
<1> HIDE DEF probe
<1>5. Cloud!Contains(probe)
  BY <1>3, <1>4 DEF Cloud!Contains
<1> QED
  BY <1>5 DEF probe

\* ... and only then, but for a text that quotes it.
LEMMA MarkerIsThere ==
  ASSUME NEW p \in Pieces, NEW c \in Cloud!Chunks(p), p # "quote",
         ~Cloud!Has(c, "quote"), Cloud!Contains(<<p>> \o c)
  PROVE  \E i \in 1..Len(c) : c[i] = "er"
<1>1. c \in Seq(Pieces) /\ Len(c) \in Nat /\ DOMAIN c = 1..Len(c)
  BY ChunkFollows
<1> DEFINE probe == <<p>> \o c
<1>2. /\ Len(probe) = Len(c) + 1 /\ DOMAIN probe = 1..(Len(c) + 1) /\ probe[1] = p
      /\ \A j \in 1..Len(c) : probe[j + 1] = c[j]
  BY <1>1, ProbeIs
<1> HIDE DEF probe
<1>3. PICK i \in DOMAIN probe :
        probe[i] = "quote" \/ (i < Len(probe) /\ probe[i] = "mark" /\ probe[i + 1] = "er")
  BY DEF Cloud!Contains, probe
<1>4. probe[i] # "quote"
  <2>1. CASE i = 1
    BY <1>2, <2>1
  <2>2. CASE i # 1
    <3>1. i - 1 \in 1..Len(c) /\ (i - 1) + 1 = i
      BY <1>1, <1>2, <2>2
    <3>2. probe[i] = c[i - 1]
      BY <1>2, <3>1
    <3> QED
      BY <1>1, <3>1, <3>2 DEF Cloud!Has
  <2> QED
    BY <2>1, <2>2
<1>5. i \in 1..Len(c) /\ c[i] = "er"
  BY <1>1, <1>2, <1>3, <1>4
<1> QED
  BY <1>5

LEMMA BegunIsNumber ==
  ASSUME NEW p \in Pieces, NEW c \in Cloud!Chunks(p)
  PROVE  Cloud!Begun(c) \in Nat
<1> DEFINE begun == {i \in DOMAIN c : c[i] \in Cloud!Starts}
<1>1. begun \subseteq 1..Len(c) /\ 1 \in Int /\ Len(c) \in Int
  BY ChunkFollows
<1> HIDE DEF begun
<1>2. IsFiniteSet(begun)
  BY <1>1, FS_Interval, FS_Subset
<1>3. Cardinality(begun) \in Nat
  BY <1>2, FS_CardinalityType
<1>4. Cloud!Cardinality(begun) = Cardinality(begun)
  BY DEF Cloud!Cardinality, Cardinality
<1> QED
  BY <1>3, <1>4 DEF Cloud!Begun, begun

LEMMA SInit == Cloud!Init => SInv
<1> SUFFICES ASSUME Cloud!Init PROVE SInv
  OBVIOUS
<1>1. csFrames \in 0..MaxFrames
  BY StreamsAssumption DEF Cloud!Init
<1>2. csTerminal \in BOOLEAN /\ csWhole \in BOOLEAN /\ csQuoted \in BOOLEAN
  BY Zenon DEF Cloud!Init
<1>3. Cloud!TypeOK
  BY <1>1, <1>2 DEF Cloud!Init, Cloud!TypeOK, Cloud!Starts, Cloud!Boundary
<1> QED
  BY <1>3 DEF Cloud!Init, SInv

LEMMA ReadKeeps ==
  ASSUME SInv, NEW c \in Cloud!Chunks(csAt), Cloud!Read(c)
  PROVE  SInv'
<1>0. /\ csAt \in Pieces /\ csTail = csAt /\ csStatus = "copying" /\ csAnswer = "none"
      /\ csWhole \in BOOLEAN /\ csTerminal \in BOOLEAN /\ csQuoted \in BOOLEAN
  BY DEF SInv, Cloud!TypeOK, Cloud!Read, Pieces
<1>1. /\ c \in Seq(Pieces) /\ Len(c) \in Nat \ {0} /\ DOMAIN c = 1..Len(c)
      /\ c[1] \in Cloud!Follow(csAt)
      /\ \A i \in 2..Len(c) : c[i] \in Cloud!Follow(c[i - 1])
  BY <1>0, ChunkFollows
<1>2. /\ csAt' = c[Len(c)] /\ csTail' = csAt' /\ c[Len(c)] \in Pieces
      /\ UNCHANGED <<csPath, csStatus, csAnswer>>
  BY <1>1 DEF Cloud!Read
<1>3. /\ csWhole' <=> csWhole \/ Cloud!Has(c, "rest")
      /\ csQuoted' <=> csQuoted \/ Cloud!Has(c, "quote")
      /\ csTerminal' <=> csTerminal \/ Cloud!Contains(<<csAt>> \o c)
      /\ csWhole' \in BOOLEAN /\ csQuoted' \in BOOLEAN /\ csTerminal' \in BOOLEAN
  BY <1>0 DEF Cloud!Read, Cloud!Probe, Cloud!Has, Cloud!Contains
<1>4. Cloud!TypeOK'
  <2>1. csFrames' \in 0..MaxFrames
    BY <1>0, BegunIsNumber, StreamsAssumption DEF SInv, Cloud!TypeOK, Cloud!Read
  <2> QED
    BY <1>2, <1>3, <2>1 DEF SInv, Cloud!TypeOK, Pieces
<1>5. csWhole' => csTerminal'
  <2>1. ASSUME NEW i \in 1..Len(c), c[i] = "rest" PROVE csTerminal'
    <3>1. CASE i = 1
      <4>1. csAt = "er"
        BY <1>0, <1>1, <2>1, <3>1, Followers
      <4> QED
        BY <1>3, <4>1 DEF SInv
    <3>2. CASE i # 1
      <4>1. i \in 2..Len(c) /\ i - 1 \in 1..Len(c)
        <5>1. Len(c) \in Nat
          BY <1>1
        <5> QED
          BY <3>2, <5>1
      <4>2. c[i - 1] \in Pieces /\ c[i] \in Cloud!Follow(c[i - 1])
        BY <1>1, <4>1
      <4>3. c[i - 1] = "er"
        BY <2>1, <4>2, Followers
      <4> QED
        BY <1>0, <1>3, <4>1, <4>3, MarkerIsFound
    <3> QED
      BY <3>1, <3>2
  <2>2. csWhole => csTerminal'
    BY <1>3 DEF SInv
  <2> QED
    BY <1>1, <1>3, <2>1, <2>2 DEF Cloud!Has
<1>6. csAt' = "er" => csTerminal'
  <2>1. Len(c) \in 1..Len(c)
    BY <1>1
  <2> QED
    BY <1>0, <1>2, <1>3, <2>1, MarkerIsFound
<1>7. csAt' = "quote" => csQuoted'
  <2>1. Len(c) \in DOMAIN c
    BY <1>1
  <2> QED
    BY <1>2, <1>3, <2>1 DEF Cloud!Has
<1>8. csTerminal' => csQuoted' \/ csWhole' \/ csAt' = "er"
  <2> SUFFICES ASSUME csTerminal', ~csQuoted', csAt' # "er" PROVE csWhole'
    OBVIOUS
  <2>1. ~csQuoted /\ ~Cloud!Has(c, "quote")
    BY <1>3
  <2>2. csAt # "quote"
    BY <2>1 DEF SInv
  <2>3. CASE csTerminal
    <3>1. csWhole \/ csAt = "er"
      BY <2>1, <2>3 DEF SInv
    <3>2. ASSUME csAt = "er" PROVE csWhole'
      <4>1. c[1] = "rest" /\ 1 \in DOMAIN c
        BY <1>0, <1>1, <3>2, Followers
      <4> QED
        BY <1>3, <4>1 DEF Cloud!Has
    <3> QED
      BY <1>3, <3>1, <3>2
  <2>4. CASE Cloud!Contains(<<csAt>> \o c)
    <3>1. PICK i \in 1..Len(c) : c[i] = "er"
      BY <1>0, <2>1, <2>2, <2>4, MarkerIsThere
    <3>2. i # Len(c)
      BY <1>2, <3>1
    <3>3. i + 1 \in 2..Len(c) /\ i + 1 \in DOMAIN c /\ (i + 1) - 1 = i
      <4>1. Len(c) \in Nat /\ i \in 1..Len(c)
        BY <1>1, <3>1
      <4>2. i + 1 \in 2..Len(c) /\ i + 1 \in 1..Len(c) /\ (i + 1) - 1 = i
        BY <3>2, <4>1
      <4> QED
        BY <1>1, <4>2
    <3>4. c[i + 1] \in Cloud!Follow(c[i]) /\ c[i] \in Pieces
      BY <1>1, <3>3
    <3>5. c[i + 1] = "rest"
      BY <3>1, <3>4, Followers
    <3> QED
      BY <1>3, <3>3, <3>5 DEF Cloud!Has
  <2> QED
    BY <1>3, <2>3, <2>4
<1> QED
  BY <1>0, <1>2, <1>4, <1>5, <1>6, <1>7, <1>8 DEF SInv

LEMMA SStep == SInv /\ [Cloud!Next]_(Cloud!vars) => SInv'
<1> SUFFICES ASSUME SInv, [Cloud!Next]_(Cloud!vars) PROVE SInv'
  OBVIOUS
<1>1. ASSUME Cloud!Refused \/ Cloud!Accepted \/ Cloud!ClientLeaves PROVE SInv'
  BY <1>1 DEF SInv, Cloud!TypeOK, Cloud!Refused, Cloud!Accepted, Cloud!ClientLeaves,
     Cloud!Error
<1>2. ASSUME Cloud!EndResponses \/ Cloud!EndLegacy PROVE SInv'
  BY <1>2 DEF SInv, Cloud!TypeOK, Cloud!EndResponses, Cloud!EndLegacy, Cloud!Fail
<1>3. CASE Cloud!Again
  <2>1. csFrames' \in 0..MaxFrames
    BY <1>3, StreamsAssumption DEF Cloud!Again
  <2>2. csTerminal' \in BOOLEAN /\ csWhole' \in BOOLEAN /\ csQuoted' \in BOOLEAN
    BY <1>3, Zenon DEF Cloud!Again
  <2>3. Cloud!TypeOK'
    BY <1>3, <2>1, <2>2 DEF Cloud!Again, Cloud!TypeOK, Cloud!Starts, Cloud!Boundary
  <2> QED
    BY <1>3, <2>3 DEF Cloud!Again, SInv
<1>4. CASE UNCHANGED Cloud!vars
  BY <1>4 DEF SInv, Cloud!TypeOK, Cloud!vars
<1> QED
  BY <1>1, <1>2, <1>3, <1>4, ReadKeeps DEF Cloud!Next

LEMMA CloudBehaves == SpecPeriphery => Cloud!Spec
<1>1. InitPeriphery => Cloud!Init
  BY DEF InitPeriphery
<1>2. [NextPeriphery]_allVars => [Cloud!Next]_(Cloud!vars)
  <2>1. UNCHANGED cloudVars => UNCHANGED Cloud!vars
    BY DEF cloudVars, Cloud!vars
  <2> QED
    BY <2>1 DEF NextPeriphery, allVars
<1> QED
  BY <1>1, <1>2, PTL DEF SpecPeriphery, Cloud!Spec

LEMMA StreamInvariant == Cloud!Spec => []SInv
  BY SInit, SStep, PTL DEF Cloud!Spec

\* A stream that is copied to its end, breaks off between two frames and quotes
\* no terminal marker in its text is closed for the client by exactly one of the
\* terminal frame of the cloud and a failure of the proxy's own, however the
\* bytes were cut into reads (terminal, tail).  Of a stream that breaks off within
\* a frame, or quotes a marker, it says nothing: see InterruptionReported.
THEOREM EndsOnce == SpecPeriphery => []OneOutcome
<1>1. SInv => Cloud!OneOutcome
  BY DEF SInv, Cloud!TypeOK, Cloud!OneOutcome, Cloud!ReportedFailure, Cloud!Boundary,
     Cloud!Starts
<1> QED
  BY StreamInvariant, CloudBehaves, <1>1, PTL DEF OneOutcome
=============================================================================
