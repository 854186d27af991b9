--------------------------- MODULE TokenStoreProofs ---------------------------
(***************************************************************************)
(* Proofs about StoreFiles, in two parts.                                  *)
(*  - TokenStore, for any commands, loads, checks and keys: who changes    *)
(*    the record or the temporaries holds the store, and a command the     *)
(*    plaintext file as well; startup checks hold nothing, and rest on     *)
(*    inodes that are never used twice.                                    *)
(*  - StoreNames, for any environments and any number of saves: which old  *)
(*    files decide that the store does, and are named for removal.         *)
(***************************************************************************)
EXTENDS StoreFiles, TLAPS

-----------------------------------------------------------------------------
(* The inductive invariant, in named parts                                 *)

Holder == Command \cup Reader

\* Who is in a hold owns the store's lock, and a command the file's.
HoldInv ==
    /\ \A p \in Holder : pc[p] \in InHold => storeLock = p
    /\ \A c \in Command : pc[c] \in InHold \cup {"file", "leave"} => fileLock = c

\* Inodes are numbered as they are made.
InodeInv ==
    /\ key # None => key.inode \in 0..made /\ key.bytes \in 1..made
    /\ \A c \in Command : pc[c] = "written" => mine[c] \in 1..made
    /\ \A k \in Check : pc[k] \in {"listed", "again"} => seen[k] \in 0..made

\* After recovery no temporary names the key, unless a stranger does as well.
KeyInv ==
    \A p \in Holder : pc[p] \in {"found", "open"} /\ key # None =>
        key.inode \in foreign \/ key.inode \notin temps

\* A check that has looked saw the key that is there, if it was not lost, and
\* searches on only if the key had no temporary left.
SeenInv ==
    \A k \in Check :
        /\ pc[k] \in {"listed", "again"} /\ k \notin excused => key # None /\ key.inode = seen[k]
        /\ pc[k] = "again" => seen[k] \notin temps

\* What a command that is about to remove the plaintext file leaves behind.
CleanInv ==
    \A c \in Command :
        /\ pc[c] = "clean" /\ op[c] = "set" => Opens /\ store.state = "saved" /\ store.token = c
        /\ pc[c] = "clean" /\ op[c] = "migrate" => Opens /\ store.state = "saved"
        /\ pc[c] = "clean" /\ op[c] = "logout" /\ Decides =>
               store.state = "saved" /\ store.token = LoggedOut
        /\ pc[c] \in Publishing \cup {"ready", "open"} /\ op[c] = "migrate" => plain # None

\* Only a saved record holds a token; no ended one is in reach of a load.
EndInv ==
    /\ store.state = "saved" => store.token # None
    /\ store.state # "saved" => store.token = None
    /\ store.token \notin ended
    /\ ~Decides => plain \notin ended

IInv ==
    /\ TypeOK /\ HoldInv /\ InodeInv /\ KeyInv /\ SeenInv /\ CleanInv /\ EndInv
    /\ OwnLeftoversPass /\ EndedStaysEnded

\* The steps of a command, of a holder, of a check, and what happens to the key.
Checks(k) == Look(k) \/ Search(k) \/ LookAgain(k)
Takes(c)  == TakeFile(c) \/ TakeFails(c) \/ Leave(c)
Writes(c) == Prepare(c) \/ PrepareLogout(c) \/ Write(c) \/ WriteFails(c) \/ CleanOnly(c) \/ Clean(c)
Around    == LoseKey \/ RestoreKey \/ HardLink \/ UNCHANGED vars

-----------------------------------------------------------------------------
(* Lemmas                                                                  *)

\* One process at a time is in a hold.
LEMMA Alone ==
    ASSUME HoldInv, NEW p \in Holder, NEW q \in Holder, pc[p] \in InHold, pc[q] \in InHold
    PROVE  p = q
  BY DEF HoldInv

LEMMA Steps ==
    ASSUME [Next]_vars
    PROVE  \/ Around
           \/ \E c \in Command : Takes(c) \/ Publish(c) \/ Writes(c)
           \/ \E p \in Holder : Hold(p)
           \/ \E r \in Reader : Load(r)
           \/ \E k \in Check : Checks(k)
  BY DEF Next, Change, Around, Takes, Writes, Checks, Holder

LEMMA Initially == Init => IInv
<1> SUFFICES ASSUME Init PROVE IInv
  OBVIOUS
<1> USE DEF Init, Process, Holder
<1>1. TypeOK
  BY TokenAssumption DEF TypeOK, Absent, PC, Operation, Inode, KeyFile, Token
<1>2. HoldInv /\ InodeInv /\ KeyInv /\ SeenInv /\ CleanInv
  BY DEF HoldInv, InodeInv, KeyInv, SeenInv, CleanInv, InHold, Publishing
<1>3. EndInv /\ OwnLeftoversPass /\ EndedStaysEnded
  BY DEF EndInv, OwnLeftoversPass, EndedStaysEnded, Absent
<1> QED
  BY <1>1, <1>2, <1>3 DEF IInv

\* A step of a process moves that process only, and who writes is in a hold.
LEMMA Mover ==
    ASSUME TypeOK, NEW p \in Process,
           \/ p \in Command /\ (Takes(p) \/ Publish(p) \/ Writes(p))
           \/ p \in Holder /\ Hold(p)
           \/ p \in Reader /\ Load(p)
           \/ p \in Check /\ Checks(p)
    PROVE  /\ \A q \in Process : q # p => pc'[q] = pc[q]
           /\ \A c \in Command : c # p => mine'[c] = mine[c]
           /\ \A k \in Check : k # p => seen'[k] = seen[k]
           /\ op' = op /\ excused' = excused /\ foreign' = foreign
           /\ pc' \in [Process -> PC]
<1> USE DEF TypeOK, Goto, history, PC, InHold, Publishing, disk
<1>1. CASE p \in Command /\ (Takes(p) \/ Publish(p))
  BY <1>1 DEF Takes, TakeFile, TakeFails, Leave, Publish, WriteTemporary, LinkKey, RemoveTemporary
<1>2. CASE p \in Command /\ Writes(p)
  BY <1>2 DEF Writes, Prepare, PrepareLogout, Write, WriteFails, CleanOnly, Clean, keyFile
<1>3. CASE p \in Holder /\ Hold(p)
  BY <1>3 DEF Hold, TakeStore, Recover, KeyRefused, GiveUp, Release, Crash
<1>4. CASE p \in Reader /\ Load(p)
  BY <1>4 DEF Load
<1>5. CASE p \in Check /\ Checks(p)
  BY <1>5 DEF Checks, Look, Search, LookAgain
<1> QED
  BY <1>1, <1>2, <1>3, <1>4, <1>5

LEMMA TypeStep ==
    ASSUME IInv, [Next]_vars
    PROVE  TypeOK'
<1> USE DEF IInv, Goto, history, disk, keyFile, locks, Process, Holder
<1>1. CASE Around
  <2>1. CASE LoseKey
    BY <2>1 DEF LoseKey, TypeOK
  <2>2. CASE RestoreKey
    BY <2>2, TokenAssumption DEF RestoreKey, TypeOK, KeyFile, Inode, Backup
  <2>3. CASE HardLink
    BY <2>3 DEF HardLink, TypeOK, KeyFile
  <2>4. CASE UNCHANGED vars
    BY <2>4 DEF vars, TypeOK
  <2> QED
    BY <1>1, <2>1, <2>2, <2>3, <2>4 DEF Around
<1>2. ASSUME NEW c \in Command, Takes(c)
      PROVE  TypeOK'
  <2>1. pc' \in [Process -> PC]
    BY <1>2, Mover
  <2> QED
    BY <1>2, <2>1 DEF Takes, TakeFile, TakeFails, Leave, TypeOK
<1>3. ASSUME NEW c \in Command, Publish(c)
      PROVE  TypeOK'
  <2>1. pc' \in [Process -> PC]
    BY <1>3, Mover
  <2>2. CASE WriteTemporary(c)
    <3>1. made' \in Inode /\ made' = made + 1 /\ made \in Nat
      BY <2>2, TokenAssumption DEF WriteTemporary, TypeOK, Inode
    <3>2. temps' \subseteq 1..made'
      BY <2>2, <3>1 DEF WriteTemporary, TypeOK
    <3> QED
      BY <2>1, <2>2, <3>1, <3>2 DEF WriteTemporary, TypeOK, Inode
  <2>3. CASE LinkKey(c)
    <3>1. mine[c] \in Inode
      BY <2>3, TokenAssumption DEF LinkKey, InodeInv, TypeOK, Inode
    <3> QED
      BY <2>1, <2>3, <3>1 DEF LinkKey, TypeOK, KeyFile
  <2>4. CASE RemoveTemporary(c)
    BY <2>1, <2>4 DEF RemoveTemporary, TypeOK
  <2> QED
    BY <1>3, <2>2, <2>3, <2>4 DEF Publish
<1>4. ASSUME NEW c \in Command, Writes(c)
      PROVE  TypeOK'
  <2>1. pc' \in [Process -> PC]
    BY <1>4, Mover
  <2>2. CASE Prepare(c) \/ PrepareLogout(c) \/ CleanOnly(c)
    <3>1. Fresh \in [state: {"absent", "fresh", "saved"}, token: Token \cup {LoggedOut, None},
                     under: Inode \cup {None}]
      BY DEF Fresh, Absent
    <3> QED
      BY <2>1, <2>2, <3>1 DEF Prepare, PrepareLogout, CleanOnly, TypeOK
  <2>3. CASE Write(c) \/ WriteFails(c)
    <3>1. NewToken(c) \in Token \cup {LoggedOut}
      BY <2>3 DEF Write, WriteFails, NewToken, CleanInv, TypeOK, Operation, Token, Publishing
    <3>2. store' \in [state: {"absent", "fresh", "saved"}, token: Token \cup {LoggedOut, None},
                      under: Inode \cup {None}]
      BY <2>3, <3>1 DEF Write, WriteFails, HasKey, Saved, Fresh, Absent, TypeOK, KeyFile
    <3> QED
      BY <2>1, <2>3, <3>2 DEF Write, WriteFails, TypeOK
  <2>4. CASE Clean(c)
    BY <2>1, <2>4 DEF Clean, TypeOK
  <2> QED
    BY <1>4, <2>2, <2>3, <2>4 DEF Writes
<1>5. ASSUME NEW p \in Holder, Hold(p)
      PROVE  TypeOK'
  <2>1. pc' \in [Process -> PC]
    BY <1>5, Mover
  <2> QED
    BY <1>5, <2>1 DEF Hold, TakeStore, Recover, KeyRefused, GiveUp, Release, Crash, TypeOK
<1>6. ASSUME NEW r \in Reader, Load(r)
      PROVE  TypeOK'
  <2>1. pc' \in [Process -> PC]
    BY <1>6, Mover
  <2> QED
    BY <1>6, <2>1 DEF Load, Returns, TypeOK
<1>7. ASSUME NEW k \in Check, Checks(k)
      PROVE  TypeOK'
  <2>1. pc' \in [Process -> PC]
    BY <1>7, Mover
  <2> QED
    BY <1>7, <2>1 DEF Checks, Look, Search, LookAgain, TypeOK, KeyFile
<1> QED
  BY <1>1, <1>2, <1>3, <1>4, <1>5, <1>6, <1>7, Steps

\* A step in a hold moves on in it, takes it when it is free, or ends it.
LEMMA HoldStep ==
    ASSUME IInv, [Next]_vars
    PROVE  HoldInv'
<1> USE DEF IInv, Goto, history, disk, keyFile, locks, Process, Holder
<1>1. CASE Around
  BY <1>1 DEF Around, LoseKey, RestoreKey, HardLink, vars, HoldInv
<1>2. ASSUME NEW c \in Command, Takes(c)
      PROVE  HoldInv'
  <2>1. \A q \in Process : q # c => pc'[q] = pc[q]
    BY <1>2, Mover
  <2>2. CASE TakeFile(c)
    <3>1. \A d \in Command : pc[d] \notin InHold \cup {"file", "leave"}
      BY <2>2 DEF TakeFile, Free, HoldInv, InHold, Publishing
    <3> QED
      BY <2>1, <2>2, <3>1 DEF TakeFile, HoldInv, TypeOK, InHold, Publishing
  <2>3. CASE TakeFails(c)
    BY <2>1, <2>3 DEF TakeFails, HoldInv, TypeOK, InHold, Publishing
  <2>4. CASE Leave(c)
    <3>1. \A d \in Command : d # c => pc[d] \notin InHold \cup {"file", "leave"}
      BY <2>4 DEF Leave, HoldInv
    <3> QED
      BY <2>1, <2>4, <3>1 DEF Leave, HoldInv, TypeOK, InHold, Publishing
  <2> QED
    BY <1>2, <2>2, <2>3, <2>4 DEF Takes
<1>3. ASSUME NEW p \in Process, pc[p] \in InHold, UNCHANGED locks,
             p \notin Check,
             \A q \in Process : q # p => pc'[q] = pc[q]
      PROVE  HoldInv'
  BY <1>3 DEF HoldInv
<1>4. ASSUME NEW c \in Command, Publish(c) \/ Writes(c)
      PROVE  HoldInv'
  <2>1. \A q \in Process : q # c => pc'[q] = pc[q]
    BY <1>4, Mover
  <2>2. pc[c] \in InHold /\ UNCHANGED locks
    BY <1>4 DEF Publish, WriteTemporary, LinkKey, RemoveTemporary,
       Writes, Prepare, PrepareLogout, Write, WriteFails, CleanOnly, Clean, InHold, Publishing
  <2> QED
    BY <1>3, <2>1, <2>2, TokenAssumption
<1>5. ASSUME NEW p \in Holder, Hold(p)
      PROVE  HoldInv'
  <2>1. (\A q \in Process : q # p => pc'[q] = pc[q]) /\ p \notin Check
    BY <1>5, Mover, TokenAssumption
  <2>2. CASE TakeStore(p)
    <3>1. \A q \in Holder : pc[q] \notin InHold
      BY <2>2 DEF TakeStore, Free, HoldInv, InHold, Publishing
    <3> QED
      BY <2>1, <2>2, <3>1 DEF TakeStore, HoldInv, TypeOK, InHold, Publishing
  <2>3. CASE Recover(p) \/ KeyRefused(p) \/ GiveUp(p)
    <3>1. pc[p] \in InHold /\ UNCHANGED locks
      BY <2>3 DEF Recover, KeyRefused, GiveUp, InHold, Publishing
    <3> QED
      BY <1>3, <2>1, <3>1
  <2>4. CASE Release(p)
    <3>1. \A q \in Holder : q # p => pc[q] \notin InHold
      BY <2>4, Alone DEF Release, InHold
    <3> QED
      BY <2>1, <2>4, <3>1 DEF Release, HoldInv, TypeOK, InHold, Publishing
  <2>5. CASE Crash(p)
    BY <2>1, <2>5 DEF Crash, HoldInv, TypeOK, InHold, Publishing
  <2> QED
    BY <1>5, <2>2, <2>3, <2>4, <2>5 DEF Hold
<1>6. ASSUME NEW r \in Reader, Load(r)
      PROVE  HoldInv'
  <2>1. (\A q \in Process : q # r => pc'[q] = pc[q]) /\ r \notin Check
    BY <1>6, Mover, TokenAssumption
  <2>2. pc[r] \in InHold /\ UNCHANGED locks
    BY <1>6 DEF Load, InHold
  <2> QED
    BY <1>3, <2>1, <2>2
<1>7. ASSUME NEW k \in Check, Checks(k)
      PROVE  HoldInv'
  <2>1. (\A q \in Process : q # k => pc'[q] = pc[q]) /\ k \notin Holder
    BY <1>7, Mover, TokenAssumption
  <2>2. UNCHANGED locks
    BY <1>7 DEF Checks, Look, Search, LookAgain
  <2> QED
    BY <2>1, <2>2 DEF HoldInv
<1> QED
  BY <1>1, <1>2, <1>4, <1>5, <1>6, <1>7, Steps

\* What may become of the key, the temporaries and the inodes.
KeyMoves ==
    /\ made' \in Nat /\ made <= made' /\ temps' \subseteq temps \cup ((made + 1)..made')
    /\ \/ key' = key
       \/ /\ key = None /\ key'.inode \in 0..made /\ key'.bytes \in 1..made
          /\ key'.inode = Backup \/ \E c \in Command : pc[c] = "written"
       \/ key' = None /\ LoseKey
    /\ foreign \subseteq foreign'

LEMMA KeyChange ==
    ASSUME IInv, [Next]_vars
    PROVE  KeyMoves
<1> USE DEF IInv, Goto, history, disk, keyFile, locks, Process, Holder
<1> USE DEF KeyMoves
<1>0. made \in Nat
  BY TokenAssumption DEF TypeOK
<1>1. CASE Around
  <2>1. CASE RestoreKey
    BY <1>0, <2>1 DEF RestoreKey, Backup
  <2>2. CASE LoseKey \/ HardLink \/ UNCHANGED vars
    BY <1>0, <2>2 DEF LoseKey, HardLink, vars
  <2> QED
    BY <1>1, <2>1, <2>2 DEF Around
<1>2. ASSUME NEW c \in Command, Publish(c)
      PROVE  KeyMoves
  <2>1. CASE WriteTemporary(c)
    BY <1>0, <2>1 DEF WriteTemporary
  <2>2. CASE LinkKey(c)
    BY <1>0, <2>2 DEF LinkKey, InodeInv
  <2>3. CASE RemoveTemporary(c)
    BY <1>0, <2>3 DEF RemoveTemporary
  <2> QED
    BY <1>2, <2>1, <2>2, <2>3 DEF Publish
<1>3. ASSUME NEW c \in Command, Takes(c) \/ Writes(c)
      PROVE  UNCHANGED keyFile
  BY <1>3 DEF Takes, TakeFile, TakeFails, Leave,
     Writes, Prepare, PrepareLogout, Write, WriteFails, CleanOnly, Clean
<1>4. ASSUME NEW p \in Holder, Hold(p)
      PROVE  UNCHANGED <<key, made, foreign>> /\ temps' \subseteq temps
  BY <1>4 DEF Hold, TakeStore, Recover, KeyRefused, GiveUp, Release, Crash
<1>5. ASSUME NEW p \in Process, (p \in Reader /\ Load(p)) \/ (p \in Check /\ Checks(p))
      PROVE  UNCHANGED keyFile
  BY <1>5 DEF Load, Checks, Look, Search, LookAgain
<1> QED
  BY <1>0, <1>1, <1>2, <1>3, <1>4, <1>5, Steps

\* How processes come to the steps that the invariant speaks of.
Arrives ==
    /\ \A c \in Command : pc'[c] = "written" =>
           WriteTemporary(c) \/ (pc[c] = "written" /\ mine'[c] = mine[c])
    /\ \A k \in Check : pc'[k] \in {"listed", "again"} =>
           Look(k) \/ Search(k) \/ (pc[k] = pc'[k] /\ seen'[k] = seen[k])
    /\ \A p \in Holder : pc'[p] \in {"found", "open"} =>
           Recover(p) \/ (p \in Command /\ PrepareLogout(p)) \/ pc[p] = pc'[p]
    /\ \A c \in Command :
           /\ pc'[c] = "clean" => Write(c) \/ CleanOnly(c) \/ pc[c] = "clean"
           /\ pc'[c] \in Publishing \cup {"ready", "open"} =>
                  Prepare(c) \/ PrepareLogout(c) \/ pc[c] \in Publishing \cup {"ready", "open"}
                  \/ op[c] # "migrate"

LEMMA Arrivals ==
    ASSUME IInv, [Next]_vars
    PROVE  Arrives
<1> USE DEF Arrives
<1> USE DEF IInv, Goto, history, disk, keyFile, locks, Process, Holder, TypeOK
<1>1. CASE Around
  BY <1>1 DEF Around, LoseKey, RestoreKey, HardLink, vars
<1>2. ASSUME NEW d \in Command, Takes(d) \/ Publish(d) \/ Writes(d)
      PROVE  Arrives
  <2>1. /\ \A q \in Process : q # d => pc'[q] = pc[q]
        /\ \A c \in Command : c # d => mine'[c] = mine[c]
        /\ seen' = seen /\ d \notin Check
    BY <1>2, Mover, TokenAssumption DEF Takes, TakeFile, TakeFails, Leave,
       Publish, WriteTemporary, LinkKey, RemoveTemporary,
       Writes, Prepare, PrepareLogout, Write, WriteFails, CleanOnly, Clean
  <2>2. CASE Takes(d)
    BY <2>1, <2>2 DEF Takes, TakeFile, TakeFails, Leave, Publishing
  <2>3. CASE Publish(d)
    BY <2>1, <2>3 DEF Publish, WriteTemporary, LinkKey, RemoveTemporary, Publishing
  <2>4. CASE Writes(d)
    <3>1. UNCHANGED mine
      BY <2>4 DEF Writes, Prepare, PrepareLogout, Write, WriteFails, CleanOnly, Clean
    <3>2. CASE Prepare(d) \/ PrepareLogout(d)
      BY <2>1, <3>1, <3>2, TokenAssumption DEF Prepare, PrepareLogout, Publishing
    <3>3. CASE Write(d) \/ WriteFails(d)
      BY <2>1, <3>1, <3>3, TokenAssumption DEF Write, WriteFails, Publishing
    <3>4. CASE CleanOnly(d) \/ Clean(d)
      BY <2>1, <3>1, <3>4, TokenAssumption DEF CleanOnly, Clean, Publishing
    <3> QED
      BY <2>4, <3>2, <3>3, <3>4 DEF Writes
  <2> QED
    BY <1>2, <2>2, <2>3, <2>4
<1>3. ASSUME NEW p \in Holder, Hold(p)
      PROVE  Arrives
  <2>1. /\ \A q \in Process : q # p => pc'[q] = pc[q]
        /\ \A c \in Command : c # p => mine'[c] = mine[c]
        /\ seen' = seen /\ p \notin Check
    BY <1>3, Mover, TokenAssumption DEF Hold, TakeStore, Recover, KeyRefused, GiveUp, Release, Crash
  <2>2. CASE Recover(p)
    BY <2>1, <2>2 DEF Recover, Publishing
  <2>3. CASE TakeStore(p) \/ KeyRefused(p) \/ GiveUp(p) \/ Release(p) \/ Crash(p)
    BY <2>1, <2>3 DEF TakeStore, KeyRefused, GiveUp, Release, Crash, Publishing
  <2> QED
    BY <1>3, <2>2, <2>3 DEF Hold
<1>4. ASSUME NEW p \in Process, (p \in Reader /\ Load(p)) \/ (p \in Check /\ Checks(p))
      PROVE  Arrives
  BY <1>4, Mover, TokenAssumption DEF Load, Checks, Look, Search, LookAgain, Publishing
<1> QED
  BY <1>1, <1>2, <1>3, <1>4, Steps

LEMMA InodeStep ==
    ASSUME IInv, [Next]_vars
    PROVE  InodeInv'
<1>0. made \in Nat /\ KeyMoves
  BY KeyChange, TokenAssumption DEF IInv, TypeOK
<1>1. key' # None => key'.inode \in 0..made' /\ key'.bytes \in 1..made'
  BY <1>0 DEF IInv, InodeInv, KeyMoves
<1>2. ASSUME NEW c \in Command, pc'[c] = "written"
      PROVE  mine'[c] \in 1..made'
  <2>1. CASE WriteTemporary(c)
    BY <1>0, <2>1 DEF WriteTemporary, IInv, TypeOK
  <2>2. CASE pc[c] = "written" /\ mine'[c] = mine[c]
    BY <1>0, <2>2 DEF IInv, InodeInv, KeyMoves
  <2> QED
    BY <1>2, <2>1, <2>2, Arrivals DEF Arrives
<1>3. ASSUME NEW k \in Check, pc'[k] \in {"listed", "again"}
      PROVE  seen'[k] \in 0..made'
  <2>1. CASE Look(k)
    <3>1. key # None /\ seen'[k] = key.inode
      BY <1>3, <2>1 DEF Look, Goto, IInv, TypeOK, Process
    <3> QED
      BY <1>0, <3>1 DEF IInv, InodeInv, KeyMoves
  <2>2. CASE Search(k) \/ (pc[k] = pc'[k] /\ seen'[k] = seen[k])
    <3>1. seen'[k] = seen[k] /\ pc[k] \in {"listed", "again"}
      BY <1>3, <2>2 DEF Search, Goto
    <3> QED
      BY <1>0, <3>1 DEF IInv, InodeInv, KeyMoves
  <2> QED
    BY <1>3, <2>1, <2>2, Arrivals DEF Arrives
<1> QED
  BY <1>1, <1>2, <1>3 DEF InodeInv

\* Recovery, seen by holders and by startup checks.
LEMMA KeyStep ==
    ASSUME IInv, [Next]_vars
    PROVE  KeyInv' /\ SeenInv' /\ OwnLeftoversPass'
<1>0. made \in Nat /\ KeyMoves /\ temps \subseteq 1..made
      /\ (key # None => key.inode \in 0..made)
  BY KeyChange, TokenAssumption DEF IInv, TypeOK, InodeInv
<1>1. ASSUME NEW p \in Holder, pc'[p] \in {"found", "open"}, key' # None
      PROVE  key'.inode \in foreign' \/ key'.inode \notin temps'
  <2>1. CASE Recover(p)
    BY <1>1, <2>1 DEF Recover
  <2>2. CASE p \in Command /\ PrepareLogout(p)
    BY <2>2 DEF PrepareLogout, HasKey, Linked, disk
  <2>3. CASE pc[p] = pc'[p]
    <3>1. CASE key' = key
      BY <1>0, <1>1, <2>3, <3>1 DEF IInv, KeyInv, KeyMoves
    <3>2. CASE key = None
      <4>1. \A c \in Command : pc[c] # "written"
        BY <1>1, <2>3, Alone DEF IInv, InHold, Publishing, Holder
      <4>2. key'.inode = Backup
        BY <1>0, <1>1, <3>2, <4>1 DEF KeyMoves
      <4> QED
        BY <1>0, <4>2 DEF KeyMoves, Backup
    <3> QED
      BY <1>0, <1>1, <3>1, <3>2 DEF KeyMoves
  <2> QED
    BY <1>1, <2>1, <2>2, <2>3, Arrivals DEF Arrives
<1>2. excused \subseteq excused'
  <2>1. CASE Around
    BY <2>1 DEF Around, LoseKey, RestoreKey, HardLink, vars, history
  <2> QED
    BY <2>1, Steps, Mover DEF IInv, Process, Holder
<1>3. ASSUME NEW k \in Check, pc'[k] \in {"listed", "again"}, k \notin excused'
      PROVE  key' # None /\ key'.inode = seen'[k]
  <2>1. CASE Look(k)
    BY <1>3, <2>1 DEF Look, Goto, IInv, TypeOK, Process, disk
  <2>2. CASE Search(k) \/ (pc[k] = pc'[k] /\ seen'[k] = seen[k])
    <3>1. seen'[k] = seen[k] /\ pc[k] \in {"listed", "again"}
      BY <1>3, <2>2 DEF Search, Goto
    <3>2. key # None /\ key.inode = seen[k]
      BY <1>2, <1>3, <3>1 DEF IInv, SeenInv
    <3>3. ~LoseKey
      BY <1>3, <3>1 DEF LoseKey
    <3> QED
      BY <1>0, <3>1, <3>2, <3>3 DEF KeyMoves
  <2> QED
    BY <1>3, <2>1, <2>2, Arrivals DEF Arrives
<1>4. ASSUME NEW k \in Check, pc'[k] = "again"
      PROVE  seen'[k] \notin temps'
  <2>1. CASE Look(k)
    BY <1>4, <2>1 DEF Look, Goto, IInv, TypeOK, Process
  <2>2. CASE Search(k)
    BY <1>4, <2>2 DEF Search, Goto, IInv, TypeOK, Process, disk
  <2>3. CASE pc[k] = pc'[k] /\ seen'[k] = seen[k]
    BY <1>0, <1>4, <2>3 DEF IInv, SeenInv, InodeInv, KeyMoves
  <2> QED
    BY <1>4, <2>1, <2>2, <2>3, Arrivals DEF Arrives
<1>5. OwnLeftoversPass'
  <2>1. ASSUME NEW p \in Holder, KeyRefused(p)
        PROVE  refused' = refused
    <3>1. pc[p] \in {"found", "open"} /\ key # None /\ key.inode \in temps \cup foreign
      BY <2>1 DEF KeyRefused, Goto, Linked
    <3>2. key.inode \in foreign
      BY <3>1 DEF IInv, KeyInv
    <3> QED
      BY <2>1, <3>2 DEF KeyRefused
  <2>2. ASSUME NEW k \in Check, LookAgain(k), k \notin excused
        PROVE  refused' = refused
    <3>1. key # None /\ key.inode = seen[k] /\ seen[k] \notin temps
      BY <2>2 DEF LookAgain, Goto, IInv, SeenInv
    <3> QED
      BY <2>2, <3>1 DEF LookAgain, Linked
  <2>3. ASSUME NEW k \in Check, LookAgain(k)
        PROVE  refused' \subseteq refused \cup {k}
    BY <2>3 DEF LookAgain
  <2>4. refused' = refused \/ (\E p \in Holder : KeyRefused(p)) \/ \E k \in Check : LookAgain(k)
    <3> USE DEF history
    <3>1. CASE Around
      BY <3>1 DEF Around, LoseKey, RestoreKey, HardLink, vars
    <3>2. ASSUME NEW c \in Command, Takes(c) \/ Publish(c) \/ Writes(c)
          PROVE  refused' = refused
      BY <3>2 DEF Takes, TakeFile, TakeFails, Leave,
         Publish, WriteTemporary, LinkKey, RemoveTemporary,
         Writes, Prepare, PrepareLogout, Write, WriteFails, CleanOnly, Clean
    <3>3. ASSUME NEW p \in Holder, Hold(p), ~KeyRefused(p)
          PROVE  refused' = refused
      BY <3>3 DEF Hold, TakeStore, Recover, GiveUp, Release, Crash
    <3>4. ASSUME NEW r \in Reader, Load(r)
          PROVE  refused' = refused
      BY <3>4 DEF Load
    <3>5. ASSUME NEW k \in Check, Checks(k), ~LookAgain(k)
          PROVE  refused' = refused
      BY <3>5 DEF Checks, Look, Search
    <3> QED
      BY <3>1, <3>2, <3>3, <3>4, <3>5, Steps
  <2> QED
    BY <1>2, <2>1, <2>2, <2>3, <2>4 DEF OwnLeftoversPass, IInv
<1> QED
  BY <1>1, <1>3, <1>4, <1>5 DEF KeyInv, SeenInv

\* Only a command in a hold changes the tokens.
LEMMA TokenChange ==
    ASSUME IInv, [Next]_vars
    PROVE  \/ UNCHANGED <<plain, store, ended>>
           \/ \E c \in Command : Writes(c) /\ pc[c] \in InHold
<1> USE DEF history, disk, Goto
<1>1. CASE Around
  BY <1>1 DEF Around, LoseKey, RestoreKey, HardLink, vars
<1>2. ASSUME NEW c \in Command, Takes(c) \/ Publish(c)
      PROVE  UNCHANGED <<plain, store, ended>>
  BY <1>2 DEF Takes, TakeFile, TakeFails, Leave, Publish, WriteTemporary, LinkKey, RemoveTemporary
<1>3. ASSUME NEW c \in Command, Writes(c)
      PROVE  pc[c] \in InHold
  BY <1>3 DEF Writes, Prepare, PrepareLogout, Write, WriteFails, CleanOnly, Clean, InHold
<1>4. ASSUME NEW p \in Holder, Hold(p)
      PROVE  UNCHANGED <<plain, store, ended>>
  BY <1>4 DEF Hold, TakeStore, Recover, KeyRefused, GiveUp, Release, Crash
<1>5. ASSUME NEW r \in Reader, Load(r)
      PROVE  UNCHANGED <<plain, store, ended>>
  BY <1>5 DEF Load
<1>6. ASSUME NEW k \in Check, Checks(k)
      PROVE  UNCHANGED <<plain, store, ended>>
  BY <1>6 DEF Checks, Look, Search, LookAgain
<1> QED
  BY <1>1, <1>2, <1>3, <1>4, <1>5, <1>6, Steps

\* What a write leaves on disk.
LEMMA Written ==
    ASSUME IInv, NEW c \in Command, Write(c)
    PROVE  /\ store'.state = "saved" /\ store'.token = NewToken(c) /\ NewToken(c) # None
           /\ key' # None /\ store'.under = key'.bytes /\ plain' = plain
  BY TokenAssumption DEF IInv, Write, Goto, HasKey, Saved, NewToken, CleanInv, TypeOK, Operation,
     keyFile, Publishing

\* The record, the plaintext file and the tokens that ended.
LEMMA EndStep ==
    ASSUME IInv, [Next]_vars
    PROVE  EndInv' /\ EndedStaysEnded'
<1>0. None \notin Token /\ LoggedOut \notin Token /\ ended \subseteq Token
  BY TokenAssumption DEF IInv, TypeOK, Token
<1>1. EndInv'
  <2> USE DEF IInv, EndInv, Decides
  <2>1. CASE UNCHANGED <<plain, store, ended>>
    BY <2>1
  <2>2. ASSUME NEW c \in Command, Prepare(c) \/ PrepareLogout(c) \/ CleanOnly(c)
        PROVE  EndInv'
    <3>1. /\ store' = store \/ store' = Fresh
          /\ UNCHANGED <<plain, ended>>
      BY <2>2 DEF Prepare, PrepareLogout, CleanOnly, disk, history
    <3>2. Fresh.state = "fresh" /\ Fresh.token = None
      BY DEF Fresh, Absent
    <3> QED
      BY <1>0, <3>1, <3>2
  <2>3. ASSUME NEW c \in Command, Write(c)
        PROVE  EndInv'
    BY <1>0, <2>3, Written DEF Write
  <2>4. ASSUME NEW c \in Command, WriteFails(c)
        PROVE  EndInv'
    <3>1. NewToken(c) # None
      BY <2>4, TokenAssumption DEF WriteFails, Goto, NewToken, CleanInv, TypeOK, Operation, Publishing
    <3>2. Fresh.state = "fresh" /\ Fresh.token = None
          /\ Saved(NewToken(c)).state = "saved" /\ Saved(NewToken(c)).token = NewToken(c)
      BY DEF Fresh, Absent, Saved
    <3>3. /\ store' \in {store, Saved(NewToken(c)), Fresh}
          /\ plain' = plain /\ ended' = ended \ {NewToken(c)}
      BY <2>4 DEF WriteFails
    <3> QED
      BY <1>0, <3>1, <3>2, <3>3
  <2>5. ASSUME NEW c \in Command, Clean(c)
        PROVE  EndInv'
    <3>1. plain' = None /\ store' = store /\ ended' = Token \ {Promised(c)}
      BY <2>5 DEF Clean
    <3>2. store.token \in {Promised(c), None, LoggedOut}
      BY <2>5 DEF Clean, Goto, CleanInv, Promised, TypeOK, Operation
    <3> QED
      BY <1>0, <3>1, <3>2
  <2> QED
    BY <2>1, <2>2, <2>3, <2>4, <2>5, TokenChange DEF Writes
<1>2. EndedStaysEnded'
  <2>1. revived' = revived \/ \E r \in Reader : Load(r)
    <3> USE DEF history
    <3>1. CASE Around
      BY <3>1 DEF Around, LoseKey, RestoreKey, HardLink, vars
    <3>2. ASSUME NEW c \in Command, Takes(c) \/ Publish(c) \/ Writes(c)
          PROVE  revived' = revived
      BY <3>2 DEF Takes, TakeFile, TakeFails, Leave,
         Publish, WriteTemporary, LinkKey, RemoveTemporary,
         Writes, Prepare, PrepareLogout, Write, WriteFails, CleanOnly, Clean
    <3>3. ASSUME NEW p \in Holder, Hold(p)
          PROVE  revived' = revived
      BY <3>3 DEF Hold, TakeStore, Recover, KeyRefused, GiveUp, Release, Crash
    <3>4. ASSUME NEW k \in Check, Checks(k)
          PROVE  revived' = revived
      BY <3>4 DEF Checks, Look, Search, LookAgain
    <3> QED
      BY <3>1, <3>2, <3>3, <3>4, Steps
  <2>2. ASSUME NEW r \in Reader, Load(r)
        PROVE  revived' = revived
    BY <2>2 DEF Load, Returns, IInv, EndInv
  <2> QED
    BY <2>1, <2>2 DEF IInv, EndedStaysEnded
<1> QED
  BY <1>1, <1>2

LEMMA CleanStep ==
    ASSUME IInv, [Next]_vars
    PROVE  CleanInv'
<1>0. op' = op
  <2>1. CASE Around
    BY <2>1 DEF Around, LoseKey, RestoreKey, HardLink, vars
  <2> QED
    BY <2>1, Steps, Mover DEF IInv, Process, Holder
\* Within a hold, only its command changes the tokens, and the key stays.
<1>1. ASSUME NEW c \in Command, pc[c] \in InHold, ~Writes(c)
      PROVE  UNCHANGED <<plain, store>> /\ (key # None => key' = key)
  <2>1. UNCHANGED <<plain, store>>
    BY <1>1, TokenChange, Alone DEF IInv, Holder
  <2>2. ~LoseKey
    BY <1>1 DEF LoseKey, Free, IInv, HoldInv, Holder, Process, InHold, Publishing
  <2>3. key # None => key' = key
    BY <2>2, KeyChange DEF KeyMoves
  <2> QED
    BY <2>1, <2>3
<1>2. ASSUME NEW c \in Command, pc'[c] = "clean"
      PROVE  /\ op[c] = "set" => Opens' /\ store'.state = "saved" /\ store'.token = c
             /\ op[c] = "migrate" => Opens' /\ store'.state = "saved"
             /\ op[c] = "logout" /\ Decides' => store'.state = "saved" /\ store'.token = LoggedOut
  <2>1. CASE Write(c)
    BY <2>1, Written DEF Opens, NewToken
  <2>2. CASE CleanOnly(c)
    BY <2>2 DEF CleanOnly, Decides, Opens, disk
  <2>3. CASE pc[c] = "clean" /\ ~Write(c) /\ ~CleanOnly(c)
    <3>1. ~Writes(c)
      BY <1>2, <2>3 DEF Writes, Prepare, PrepareLogout, WriteFails, Clean, Goto, IInv, TypeOK, Process
    <3>2. UNCHANGED <<plain, store>> /\ (key # None => key' = key)
      BY <1>1, <2>3, <3>1 DEF InHold
    <3> QED
      BY <2>3, <3>2 DEF IInv, CleanInv, Opens, Decides
  <2> QED
    BY <1>2, <2>1, <2>2, <2>3, Arrivals DEF Arrives
<1>3. ASSUME NEW c \in Command, pc'[c] \in Publishing \cup {"ready", "open"}, op[c] = "migrate"
      PROVE  plain' # None
  <2>1. CASE Prepare(c)
    BY <1>3, <2>1 DEF Prepare
  <2>2. CASE pc[c] \in Publishing \cup {"ready", "open"}
    <3>1. plain # None
      BY <1>3, <2>2 DEF IInv, CleanInv
    <3>2. CASE Writes(c)
      BY <2>2, <3>1, <3>2 DEF Writes, Prepare, PrepareLogout, Write, WriteFails, CleanOnly, Clean,
         Goto, disk, keyFile, Publishing
    <3>3. CASE ~Writes(c)
      BY <1>1, <2>2, <3>1, <3>3 DEF InHold
    <3> QED
      BY <3>2, <3>3
  <2>3. CASE PrepareLogout(c)
    BY <1>3, <2>3 DEF PrepareLogout
  <2> QED
    BY <1>3, <2>1, <2>2, <2>3, Arrivals DEF Arrives
<1> QED
  BY <1>0, <1>2, <1>3 DEF CleanInv

-----------------------------------------------------------------------------
(* Theorems                                                                *)

\* Every reachable state satisfies the invariant.
THEOREM Inductive == Spec => []IInv
<1>1. IInv /\ [Next]_vars => IInv'
  BY TypeStep, HoldStep, InodeStep, KeyStep, CleanStep, EndStep DEF IInv
<1> QED
  BY Initially, <1>1, PTL DEF Spec

\* Type correctness.
THEOREM TypeCorrect == Spec => []TypeOK
<1>1. IInv => TypeOK
  BY DEF IInv
<1> QED
  BY <1>1, Inductive, PTL

\* No process refuses a key for a second name that a publication left, for any
\* number of publications, recoveries and checks (recover_key_link, key_temporary).
THEOREM LeftoversPass == Spec => []OwnLeftoversPass
<1>1. IInv => OwnLeftoversPass
  BY DEF IInv
<1> QED
  BY <1>1, Inductive, PTL

\* No load returns a token that a completed command ended (change_token).
THEOREM EndedTokens == Spec => []EndedStaysEnded
<1>1. IInv => EndedStaysEnded
  BY DEF IInv
<1> QED
  BY <1>1, Inductive, PTL

\* The plaintext token goes only when its successor is on disk, or a logout
\* ends it (remove_legacy).
LEMMA PlainSucceeded == Spec => PlainIsSucceeded
<1>1. IInv /\ [Next]_vars =>
        [plain # plain' => Succeeded]_vars
  <2> SUFFICES ASSUME IInv, [Next]_vars, plain # plain' PROVE Succeeded
    OBVIOUS
  <2>1. PICK c \in Command : Clean(c)
    <3>1. PICK c \in Command : Writes(c)
      BY TokenChange
    <3> QED
      BY <3>1 DEF Writes, Prepare, PrepareLogout, Write, WriteFails, CleanOnly, disk
  <2>2. pc[c] = "clean" /\ op[c] \in Operation
    BY <2>1 DEF Clean, Goto, IInv, TypeOK
  <2> QED
    BY <2>2 DEF Succeeded, IInv, CleanInv, EndInv, Operation
<1> QED
  BY <1>1, Inductive, PTL DEF Spec, PlainIsSucceeded

\* A key file is never replaced, and a record that opens goes on opening until
\* the key is lost (hard_link in publish, prepare_key).
LEMMA KeyKept == Spec => KeyIsKept
<1>1. IInv /\ [Next]_vars =>
        [/\ key # None => key' \in {key, None}
         /\ Opens /\ store.state = "saved" =>
              key' = None \/ (Opens /\ store.state = "saved")']_vars
  <2> SUFFICES ASSUME IInv, [Next]_vars
               PROVE  /\ key # None => key' \in {key, None}
                      /\ Opens /\ store.state = "saved" =>
                           key' = None \/ (Opens /\ store.state = "saved")'
    OBVIOUS
  <2>1. key # None => key' \in {key, None}
    BY KeyChange DEF KeyMoves
  <2>2. ASSUME Opens, store.state = "saved", key' # None
        PROVE  (Opens /\ store.state = "saved")'
    <3>1. key # None /\ key' = key
      BY <2>1, <2>2 DEF Opens
    <3>2. CASE store' = store
      BY <2>2, <3>1, <3>2 DEF Opens
    <3>3. ASSUME NEW c \in Command, Writes(c)
          PROVE  /\ store' # store => store'.state = "saved" /\ store'.under = key.bytes
      <4>1. CASE Write(c) \/ WriteFails(c)
        BY <2>2, <4>1 DEF Write, WriteFails, Saved, Decides
      <4>2. CASE Prepare(c) \/ PrepareLogout(c) \/ CleanOnly(c) \/ Clean(c)
        BY <3>1, <4>2 DEF Prepare, PrepareLogout, CleanOnly, Clean, disk
      <4> QED
        BY <3>3, <4>1, <4>2 DEF Writes
    <3> QED
      BY <3>1, <3>2, <3>3, TokenChange DEF Opens
  <2> QED
    BY <2>1, <2>2
<1> QED
  BY <1>1, Inductive, PTL DEF Spec, KeyIsKept

\* No interruption of a command loses the plaintext token or the saved one
\* (remove_legacy, prepare_key).
THEOREM TokensAreKept == Spec => NothingIsLost
  BY PlainSucceeded, KeyKept DEF NothingIsLost

-----------------------------------------------------------------------------
(* Old names (StoreNames).  Off macOS there are none.  On macOS the store  *)
(* is in the support directory, below which no file is a link, and whose   *)
(* files are the only ones that a save changes; so what decided that an    *)
(* old name is the store's own still says so after any save.               *)

Bare == {Old!Lost, Old!Broken}

\* Files and the directories that bases lead to; the store's own are no links.
FilesInv ==
    /\ env \in Environment /\ where \in Old!Bases
    /\ file \in [Old!Everywhere -> [kind : {"none", "file", "link", "dangling"}, inode : Nat]]
    /\ env.mac => \A q \in Old!Everywhere : q.base = "support" => file[q].kind \in {"none", "file"}
    /\ saves \in Nat

\* The current files that were read are in entries; nothing else is.
EntriesInv ==
    /\ step \in {"current", "identity", "old", "done"}
    /\ step \in {"current", "identity"} => todo \subseteq Old!Current
    /\ step = "old" => todo \subseteq Old!Retired
    /\ env.mac => \A e \in entries : e.base = "support"
    /\ 0 \notin identities
    /\ step \in {"current", "identity"} =>
         \A c \in Old!Current \ todo : where[c.base] # Old!Lost => Old!DirectoryEntry(c) \in entries
    /\ step = "old" =>
         \A c \in Old!Current : where[c.base] # Old!Lost => Old!DirectoryEntry(c) \in entries
    /\ step = "done" => \/ \E c \in Old!Current : where[c.base] = Old!Broken
                        \/ ~env.mac

\* An old file that was passed over is the store's.
PassedInv ==
    \A p \in Old!Found :
        (step = "done" \/ (step = "old" /\ p \notin todo)) =>
            p \in deciding \/ Old!LinkedEntry(p).base = "support" \/ Old!Identity(p) \in identities

\* What is named has a directory entry that none of the current files has.
NamedInv ==
    /\ named \subseteq Old!Retired
    /\ \A p \in named : Old!DirectoryEntry(p) \notin {Old!DirectoryEntry(c) : c \in Old!Current}

NamesInv == FilesInv /\ EntriesInv /\ PassedInv /\ NamedInv

-----------------------------------------------------------------------------
(* Paths                                                                   *)

LEMMA PathFields ==
    ASSUME NEW b, NEW d, NEW n
    PROVE  /\ Old!Path(b, d, n).base = b /\ Old!Path(b, d, n).below = d
           /\ Old!Path(b, d, n).name = n
           /\ \A x : [Old!Path(b, d, n) EXCEPT !.base = x] = Old!Path(x, d, n)
BY DEF Old!Path

LEMMA InEverywhere ==
    ASSUME NEW p
    PROVE  p \in Old!Everywhere <=>
             \E b \in Old!Base : p = Old!Path(b, "server", "session.enc") \/ p = Old!Path(b, "keys", "key")
BY DEF Old!Everywhere

\* The variables of the environment name bases.
LEMMA BasesNamed ==
    ASSUME env \in Environment
    PROVE  Old!ConfigBase \in Old!Base /\ Old!DataBase \in Old!Base
<1>1. {env.config, env.data} \subseteq {"unset", "relative", "support", "elsewhere"}
  BY NamesAssumption DEF Old!NamesAssumption
<1> QED
  BY <1>1 DEF Old!ConfigBase, Old!DataBase, Old!XdgBase, Old!Base

\* The paths are known ones; old ones are on macOS, and outside of the support directory.
LEMMA PathsKnown ==
    ASSUME env \in Environment
    PROVE  /\ Old!Current \subseteq Old!Everywhere /\ Old!Retired \subseteq Old!Everywhere
           /\ env.mac => \A c \in Old!Current : c.base = "support"
           /\ \A p \in Old!Retired : env.mac /\ p.base # "support"
<1>0. env.mac \in BOOLEAN
  BY NamesAssumption DEF Old!NamesAssumption
<1>1. Old!ConfigBase \in Old!Base /\ Old!DataBase \in Old!Base
  BY BasesNamed
<1>2. "support" \in Old!Base /\ "config" \in Old!Base /\ "data" \in Old!Base
  BY DEF Old!Base
<1>3. Old!Current \subseteq Old!Everywhere
  BY <1>1, <1>2, InEverywhere DEF Old!Current, Old!RecordPath, Old!KeyPath
<1>4. env.mac => \A c \in Old!Current : c.base = "support"
  BY PathFields DEF Old!Current, Old!RecordPath, Old!KeyPath
<1>5. ASSUME NEW p \in Old!Retired
      PROVE  p \in Old!Everywhere /\ env.mac /\ p.base # "support"
  <2>1. env.mac
    BY <1>5 DEF Old!Retired
  <2>2. Old!Current = {Old!Path("support", "server", "session.enc"), Old!Path("support", "keys", "key")}
    BY <2>1 DEF Old!Current, Old!RecordPath, Old!KeyPath
  <2>3. PICK b \in Old!Base : p = Old!Path(b, "server", "session.enc") \/ p = Old!Path(b, "keys", "key")
    BY <1>1, <1>2, <1>5, <2>1 DEF Old!Retired
  <2>4. p \notin Old!Current
    BY <1>5, <2>1 DEF Old!Retired
  <2>5. b # "support"
    BY <2>2, <2>3, <2>4
  <2> QED
    BY <2>1, <2>3, <2>5, PathFields, InEverywhere
<1> QED
  BY <1>3, <1>4, <1>5

\* A base is one of four, and leads to itself, to the store's, or nowhere.
LEMMA BaseLeads ==
    ASSUME where \in Old!Bases, NEW p \in Old!Everywhere
    PROVE  /\ p.base \in Old!Base
           /\ where[p.base] \in {p.base, "support", Old!Lost, Old!Broken}
           /\ where["support"] \in {"support", Old!Lost, Old!Broken}
           /\ p.base \notin Bare /\ "support" \notin Bare
<1>1. p.base \in Old!Base
  BY InEverywhere, PathFields
<1>2. "support" \in Old!Base
  BY DEF Old!Base
<1> QED
  BY <1>1, <1>2 DEF Old!Bases, Old!Base, Bare, Old!Lost, Old!Broken

\* The directory entry of a path has the base that its own leads to.
LEMMA EntryOf ==
    ASSUME where \in Old!Bases, NEW p \in Old!Everywhere
    PROVE  /\ Old!DirectoryEntry(p).base = where[p.base]
           /\ where[p.base] \notin Bare => Old!DirectoryEntry(p) \in Old!Everywhere
           /\ where[p.base] = p.base => Old!DirectoryEntry(p) = p
<1>1. PICK b \in Old!Base, d \in {"server", "keys"}, n \in {"session.enc", "key"} :
        /\ p = Old!Path(b, d, n)
        /\ \A x \in Old!Base : Old!Path(x, d, n) \in Old!Everywhere
  BY InEverywhere
<1>2. Old!DirectoryEntry(p) = Old!Path(where[b], d, n) /\ p.base = b
  BY <1>1, PathFields DEF Old!DirectoryEntry
<1>3. where[b] \in {b, "support", Old!Lost, Old!Broken} /\ "support" \in Old!Base
  BY <1>2, BaseLeads DEF Old!Base
<1> QED
  BY <1>1, <1>2, <1>3, PathFields DEF Bare

\* A link leads to the one current file of its name.
LEMMA OneCurrent ==
    ASSUME NEW p \in Old!Everywhere
    PROVE  Old!CurrentOf(p) \in Old!Everywhere /\ Old!CurrentOf(p).base = "support"
<1>1. "support" \in Old!Base
  BY DEF Old!Base
<1>2. PICK b \in Old!Base : p = Old!Path(b, "server", "session.enc") \/ p = Old!Path(b, "keys", "key")
  BY InEverywhere
<1>3. \E c \in Old!Everywhere : c.base = "support" /\ c.below = p.below
  <2>1. CASE p = Old!Path(b, "server", "session.enc")
    <3>1. Old!Path("support", "server", "session.enc") \in Old!Everywhere
      BY <1>1, InEverywhere
    <3> QED
      BY <2>1, <3>1, PathFields
  <2>2. CASE p = Old!Path(b, "keys", "key")
    <3>1. Old!Path("support", "keys", "key") \in Old!Everywhere
      BY <1>1, InEverywhere
    <3> QED
      BY <2>2, <3>1, PathFields
  <2> QED
    BY <1>2, <2>1, <2>2
<1> QED
  BY <1>3 DEF Old!CurrentOf

-----------------------------------------------------------------------------
(* What is at an old name                                                  *)

\* What is found under an old name that leads to the store is one of its files; what
\* is found elsewhere is a file, or a link that leads to one of the store's, if any.
FoundAre ==
    \A p \in Old!Found :
        /\ p \in Old!Retired /\ p \in Old!Everywhere /\ env.mac /\ p.base # "support"
        /\ where[p.base] \in {p.base, "support"}
        /\ Old!At(p) = file[Old!DirectoryEntry(p)] /\ Old!DirectoryEntry(p) \in Old!Everywhere
        /\ where[p.base] = "support" =>
             Old!At(p).kind = "file" /\ Old!LinkedEntry(p).base = "support"
        /\ where[p.base] = p.base => Old!At(p) = file[p]

LEMMA FoundKinds == FilesInv => FoundAre
<1> SUFFICES ASSUME FilesInv, NEW p \in Old!Found
             PROVE  /\ p \in Old!Retired /\ p \in Old!Everywhere /\ env.mac /\ p.base # "support"
                    /\ where[p.base] \in {p.base, "support"}
                    /\ Old!At(p) = file[Old!DirectoryEntry(p)] /\ Old!DirectoryEntry(p) \in Old!Everywhere
                    /\ where[p.base] = "support" =>
                         Old!At(p).kind = "file" /\ Old!LinkedEntry(p).base = "support"
                    /\ where[p.base] = p.base => Old!At(p) = file[p]
  BY DEF FoundAre
<1>1. /\ p \in Old!Retired /\ p \in Old!Everywhere /\ env.mac /\ p.base # "support"
      /\ Old!At(p).kind # "none"
  BY PathsKnown DEF FilesInv, Old!Found
<1>2. /\ where[p.base] \in {p.base, "support", Old!Lost, Old!Broken}
      /\ p.base \notin Bare /\ "support" \notin Bare
  BY <1>1, BaseLeads DEF FilesInv
<1>3. where[p.base] \notin Bare
  BY <1>1 DEF Old!At, Old!NoFile, Bare
<1>4. /\ Old!At(p) = file[Old!DirectoryEntry(p)] /\ Old!DirectoryEntry(p) \in Old!Everywhere
      /\ Old!DirectoryEntry(p).base = where[p.base]
      /\ where[p.base] = p.base => Old!DirectoryEntry(p) = p
  BY <1>1, <1>3, EntryOf DEF FilesInv, Old!At, Bare
<1>5. ASSUME where[p.base] = "support"
      PROVE  Old!At(p).kind = "file" /\ Old!LinkedEntry(p).base = "support"
  <2>1. Old!At(p).kind = "file"
    BY <1>1, <1>4, <1>5 DEF FilesInv
  <2> QED
    BY <1>4, <1>5, <2>1 DEF Old!LinkedEntry
<1> QED
  BY <1>1, <1>2, <1>3, <1>4, <1>5 DEF Bare

\* What a link's current file is decides where the link leads: to the store, or nowhere.
LinksLead ==
    \A p \in Old!Everywhere : Old!At(p).kind # "file" =>
        /\ Old!LinkedEntry(p).base \in {"support", Old!Lost}
        /\ Old!LinkedEntry(p).base = "support" <=>
             Old!At(p).kind = "link" /\ Old!At(Old!CurrentOf(p)).kind = "file"
        /\ Old!LinkedEntry(p).base = Old!Lost => Old!Identity(p) = 0

LEMMA LinkLeads == FilesInv => LinksLead
<1> SUFFICES ASSUME FilesInv, NEW p \in Old!Everywhere, Old!At(p).kind # "file"
             PROVE  /\ Old!LinkedEntry(p).base \in {"support", Old!Lost}
                    /\ Old!LinkedEntry(p).base = "support" <=>
                         Old!At(p).kind = "link" /\ Old!At(Old!CurrentOf(p)).kind = "file"
                    /\ Old!LinkedEntry(p).base = Old!Lost => Old!Identity(p) = 0
  BY DEF LinksLead
<1>1. Old!CurrentOf(p) \in Old!Everywhere /\ Old!CurrentOf(p).base = "support"
  BY OneCurrent
<1>2. /\ where["support"] \in {"support", Old!Lost, Old!Broken} /\ "support" # Old!Lost
      /\ Old!DirectoryEntry(Old!CurrentOf(p)).base = where["support"]
  BY <1>1, BaseLeads, EntryOf DEF FilesInv, Bare
<1>3. Old!At(Old!CurrentOf(p)).kind = "file" => where["support"] = "support"
  BY <1>1, <1>2 DEF Old!At, Old!NoFile
<1>4. Old!Path(Old!Lost, p.below, p.name).base = Old!Lost
  BY PathFields
<1> QED
  BY <1>2, <1>3, <1>4 DEF Old!LinkedEntry, Old!Identity

-----------------------------------------------------------------------------
(* The steps                                                               *)

LEMMA NamesInit ==
    ASSUME Old!Init
    PROVE  NamesInv
<1> USE DEF Old!Init
<1>1. env \in Environment /\ where \in Old!Bases /\ saves \in Nat
  OBVIOUS
<1>2. PICK old \in [{p \in Old!Retired : where[p.base] = p.base} ->
                      {Old!NoFile, Old!Inode(1), Old!Inode(2), Old!Link("link"), Old!Link("dangling")}],
           new \in [Old!Current -> {Old!NoFile, Old!Inode(1)}] :
         file = [p \in Old!Everywhere |->
                   IF p \in DOMAIN old THEN old[p]
                   ELSE IF p \in Old!Current /\ where[p.base] = p.base THEN new[p]
                   ELSE Old!NoFile]
  OBVIOUS
<1>3. \A q \in Old!Everywhere :
        /\ file[q] \in {Old!NoFile, Old!Inode(1), Old!Inode(2), Old!Link("link"), Old!Link("dangling")}
        /\ q \notin Old!Retired => file[q] \in {Old!NoFile, Old!Inode(1)}
  BY <1>2
<1>4. FilesInv
  <2>1. file \in [Old!Everywhere -> [kind : {"none", "file", "link", "dangling"}, inode : Nat]]
    BY <1>2, <1>3 DEF Old!NoFile, Old!Inode, Old!Link
  <2>2. \A q \in Old!Everywhere : q.base = "support" => file[q].kind \in {"none", "file"}
    BY <1>1, <1>3, PathsKnown DEF Old!NoFile, Old!Inode
  <2> QED
    BY <1>1, <2>1, <2>2 DEF FilesInv
<1> QED
  BY <1>4 DEF NamesInv, EntriesInv, PassedInv, NamedInv

\* Where nothing but the finding changes, so do the files and what leads to them.
LEMMA SameFiles ==
    ASSUME UNCHANGED <<env, where, file>>
    PROVE  /\ Old!Current' = Old!Current /\ Old!Retired' = Old!Retired /\ Old!Found' = Old!Found
           /\ \A p : /\ Old!DirectoryEntry(p)' = Old!DirectoryEntry(p)
                     /\ Old!LinkedEntry(p)' = Old!LinkedEntry(p)
                     /\ Old!Identity(p)' = Old!Identity(p)
                     /\ Old!CanBeRead(p)' = Old!CanBeRead(p)
BY DEF Old!Current, Old!Retired, Old!Found, Old!RecordPath, Old!KeyPath, Old!ConfigBase, Old!DataBase,
       Old!XdgBase, Old!At, Old!DirectoryEntry, Old!LinkedEntry, Old!Identity, Old!CanBeRead,
       Old!CurrentOf, Old!Lost, Old!Broken, Old!NoFile, Old!Everywhere, Old!Base, Old!Path

LEMMA NamesReadCurrent ==
    ASSUME NamesInv, NEW p \in Old!Everywhere, Old!ReadCurrent(p)
    PROVE  NamesInv'
<1>0. /\ step = "current" /\ p \in todo /\ UNCHANGED <<env, where, file, todo, identities, named, saves>>
      /\ todo \subseteq Old!Current /\ FilesInv
  BY DEF NamesInv, EntriesInv, Old!ReadCurrent
<1>1. FilesInv' /\ NamedInv'
  BY <1>0, SameFiles DEF NamesInv, FilesInv, NamedInv
<1>2. /\ Old!Current' = Old!Current /\ Old!Found' = Old!Found
      /\ \A c : Old!DirectoryEntry(c)' = Old!DirectoryEntry(c)
  BY <1>0, SameFiles
<1>3. CASE Old!CanBeRead(p)
  <2>1. /\ step' = "identity" /\ UNCHANGED deciding
        /\ entries' = entries \cup (IF where[p.base] = Old!Lost THEN {} ELSE {Old!DirectoryEntry(p)})
    BY <1>3 DEF Old!ReadCurrent
  <2>2. env.mac /\ where[p.base] # Old!Lost => Old!DirectoryEntry(p).base = "support"
    <3>1. env.mac => p.base = "support"
      BY <1>0, PathsKnown DEF FilesInv
    <3> QED
      BY <1>0, <1>3, <3>1, EntryOf, BaseLeads DEF FilesInv, Old!CanBeRead
  <2>3. EntriesInv'
    BY <1>0, <1>2, <2>1, <2>2 DEF NamesInv, EntriesInv
  <2> QED
    BY <1>1, <2>1, <2>3 DEF NamesInv, PassedInv
<1>4. CASE ~Old!CanBeRead(p)
  <2>1. step' = "done" /\ deciding' = Old!Found /\ UNCHANGED entries
    BY <1>4 DEF Old!ReadCurrent
  <2>2. p \in Old!Current /\ where[p.base] = Old!Broken
    BY <1>0, <1>4 DEF Old!CanBeRead
  <2>3. EntriesInv'
    BY <1>0, <1>2, <2>1, <2>2 DEF NamesInv, EntriesInv
  <2> QED
    BY <1>1, <1>2, <2>1, <2>3 DEF NamesInv, PassedInv
<1> QED
  BY <1>3, <1>4

LEMMA NamesReadIdentity ==
    ASSUME NamesInv, NEW p \in Old!Everywhere, Old!ReadIdentity(p)
    PROVE  NamesInv'
<1>0. /\ step = "identity" /\ p \in todo /\ UNCHANGED <<env, where, file, entries, deciding, named, saves>>
      /\ todo \subseteq Old!Current /\ FilesInv /\ EntriesInv
      /\ identities' = identities \cup ({Old!Identity(p)} \ {0})
      /\ \/ todo = {p} /\ step' = "old" /\ todo' = Old!Found
         \/ todo # {p} /\ step' = "current" /\ todo' = todo \ {p}
  BY DEF NamesInv, EntriesInv, Old!ReadIdentity
<1>1. FilesInv' /\ NamedInv'
  BY <1>0, SameFiles DEF NamesInv, FilesInv, NamedInv
<1>2. /\ Old!Current' = Old!Current /\ Old!Found' = Old!Found
      /\ \A c : Old!DirectoryEntry(c)' = Old!DirectoryEntry(c)
  BY <1>0, SameFiles
<1>3. where[p.base] # Old!Lost => Old!DirectoryEntry(p) \in entries
  <2>1. Old!DirectoryEntry(p) \in entries \cup {Old!Path(Old!Lost, p.below, p.name)}
    BY DEF Old!ReadIdentity
  <2>2. Old!DirectoryEntry(p).base = where[p.base]
    BY <1>0, EntryOf DEF FilesInv
  <2> QED
    BY <2>1, <2>2, PathFields
<1>4. EntriesInv'
  <2>0. Old!Found \subseteq Old!Retired
    BY DEF Old!Found
  <2>1. \A c \in Old!Current \ (todo \ {p}) : where[c.base] # Old!Lost => Old!DirectoryEntry(c) \in entries
    BY <1>0, <1>3 DEF EntriesInv
  <2> QED
    BY <1>0, <1>2, <2>0, <2>1, SameFiles DEF EntriesInv
<1>5. PassedInv'
  BY <1>0, <1>2 DEF PassedInv
<1> QED
  BY <1>1, <1>4, <1>5 DEF NamesInv

LEMMA NamesReadOld ==
    ASSUME NamesInv, NEW p \in Old!Everywhere, Old!ReadOld(p)
    PROVE  NamesInv'
<1>0. /\ step = "old" /\ p \in todo /\ UNCHANGED <<env, where, file, step, entries, identities, saves>>
      /\ todo' = todo \ {p} /\ FilesInv /\ EntriesInv
      /\ deciding \subseteq deciding'
  BY DEF NamesInv, Old!ReadOld
<1>1. FilesInv'
  BY <1>0 DEF FilesInv, Old!Everywhere, Old!Bases
<1>2. /\ Old!Current' = Old!Current /\ Old!Found' = Old!Found /\ Old!Retired' = Old!Retired
      /\ \A q : /\ Old!DirectoryEntry(q)' = Old!DirectoryEntry(q)
                /\ Old!LinkedEntry(q)' = Old!LinkedEntry(q)
                /\ Old!Identity(q)' = Old!Identity(q)
  BY <1>0, SameFiles
<1>3. EntriesInv'
  BY <1>0, <1>2 DEF EntriesInv
<1>4. PassedInv'
  <2> SUFFICES ASSUME NEW q \in Old!Found, step = "old", q \notin todo \ {p}
               PROVE  \/ q \in deciding' \/ Old!LinkedEntry(q).base = "support"
                      \/ Old!Identity(q) \in identities
    BY <1>0, <1>2 DEF PassedInv
  <2>1. CASE q # p
    BY <1>0, <2>1 DEF NamesInv, PassedInv
  <2>2. CASE q = p
    <3>1. env.mac
      BY <1>0, FoundKinds DEF FoundAre
    <3>2. \/ Old!LinkedEntry(p) \in entries \/ Old!Identity(p) \in identities
          \/ p \in deciding'
      BY DEF Old!ReadOld
    <3> QED
      BY <1>0, <2>2, <3>1, <3>2 DEF EntriesInv
  <2> QED
    BY <2>1, <2>2
<1>5. NamedInv'
  <2>1. CASE named' = named
    BY <1>2, <2>1 DEF NamesInv, NamedInv
  <2>2. CASE named' = named \cup {p} /\ p \in Old!Found /\ Old!LinkedEntry(p) \notin entries
    <3>1. \A c \in Old!Current : Old!DirectoryEntry(p) # Old!DirectoryEntry(c)
      <4> SUFFICES ASSUME NEW c \in Old!Current, Old!DirectoryEntry(p) = Old!DirectoryEntry(c)
                   PROVE  FALSE
        OBVIOUS
      <4>1. c \in Old!Everywhere
        BY <1>0, PathsKnown DEF FilesInv
      <4>2. /\ p \in Old!Everywhere /\ env.mac /\ p.base # "support"
            /\ where[p.base] \in {p.base, "support"}
            /\ Old!At(p) = file[Old!DirectoryEntry(p)]
            /\ where[p.base] = "support" => Old!At(p).kind = "file"
        BY <1>0, <2>2, FoundKinds DEF FoundAre
      <4>3. Old!DirectoryEntry(p).base = where[p.base] /\ Old!DirectoryEntry(c).base = where["support"]
        <5>1. c.base = "support"
          BY <1>0, <4>2, PathsKnown DEF FilesInv
        <5> QED
          BY <1>0, <4>1, <4>2, <5>1, EntryOf DEF FilesInv
      <4>4. where["support"] \in {"support", Old!Lost, Old!Broken} /\ p.base \notin Bare
        BY <1>0, <4>2, BaseLeads DEF FilesInv
      <4>5. where["support"] = "support" /\ where[p.base] = "support" /\ "support" # Old!Lost
        BY <4>2, <4>3, <4>4 DEF Bare, Old!Lost, Old!Broken
      <4>6. Old!LinkedEntry(p) = Old!DirectoryEntry(p)
        BY <4>2, <4>5 DEF Old!LinkedEntry
      <4>7. c.base = "support"
        BY <1>0, <4>2, PathsKnown DEF FilesInv
      <4>8. Old!DirectoryEntry(c) \in entries
        BY <1>0, <4>5, <4>7 DEF EntriesInv
      <4> QED
        BY <2>2, <4>6, <4>8
    <3>2. p \in Old!Retired
      BY <2>2 DEF Old!Found
    <3> QED
      BY <1>2, <2>2, <3>1, <3>2 DEF NamesInv, NamedInv
  <2>3. named' # named => /\ named' = named \cup {p} /\ Old!LinkedEntry(p) \notin entries
    BY DEF Old!ReadOld
  <2>4. named' # named => p \in Old!Found
    <3>1. named' # named => Old!LinkedEntry(p).base # Old!Lost
      BY DEF Old!ReadOld
    <3>2. Old!LinkedEntry(p).base # Old!Lost => Old!At(p).kind # "none"
      BY PathFields DEF Old!LinkedEntry
    <3> QED
      BY <1>0, <3>1, <3>2 DEF EntriesInv, Old!Found
  <2> QED
    BY <2>1, <2>2, <2>3, <2>4
<1> QED
  BY <1>1, <1>3, <1>4, <1>5 DEF NamesInv

\* A save changes one file of the support directory, which is then a file.
LEMMA NamesSave ==
    ASSUME NamesInv, NEW c \in Old!Current, Old!Save(c)
    PROVE  NamesInv'
<1>0. /\ FilesInv /\ EntriesInv /\ saves' = saves + 1 /\ where[c.base] = c.base
      /\ file' = [file EXCEPT ![c] = Old!Inode(2 + saves')]
      /\ UNCHANGED <<env, where, step, todo, entries, identities, deciding, named>>
  BY DEF NamesInv, Old!Save
<1>1. /\ saves' \in Nat /\ env' \in Environment /\ where' \in Old!Bases
      /\ c \in Old!Everywhere /\ Old!Everywhere' = Old!Everywhere
      /\ file' \in [Old!Everywhere -> [kind : {"none", "file", "link", "dangling"}, inode : Nat]]
      /\ \A q \in Old!Everywhere : q # c => file'[q] = file[q]
      /\ file'[c].kind = "file"
  <2>1. saves \in Nat /\ file \in [Old!Everywhere -> [kind : {"none", "file", "link", "dangling"}, inode : Nat]]
    BY <1>0 DEF FilesInv
  <2>2. c \in Old!Everywhere
    BY <1>0, PathsKnown DEF FilesInv
  <2>3. /\ Old!Inode(2 + saves') \in [kind : {"none", "file", "link", "dangling"}, inode : Nat]
        /\ Old!Inode(2 + saves').kind = "file"
    BY <1>0, <2>1 DEF Old!Inode
  <2>4. Old!Everywhere' = Old!Everywhere
    BY DEF Old!Everywhere, Old!Base, Old!Path
  <2> QED
    BY <1>0, <2>1, <2>2, <2>3, <2>4 DEF FilesInv
<1>2. FilesInv'
  BY <1>0, <1>1 DEF FilesInv
<1>3. /\ Old!Current' = Old!Current /\ Old!Retired' = Old!Retired
      /\ \A q : /\ Old!DirectoryEntry(q)' = Old!DirectoryEntry(q)
                /\ Old!CurrentOf(q)' = Old!CurrentOf(q)
  BY <1>0 DEF Old!Current, Old!Retired, Old!RecordPath, Old!KeyPath, Old!ConfigBase, Old!DataBase,
     Old!XdgBase, Old!DirectoryEntry, Old!CurrentOf, Old!Lost, Old!Broken, Old!Everywhere, Old!Base,
     Old!Path
<1>4. EntriesInv' /\ NamedInv'
  BY <1>0, <1>3 DEF NamesInv, EntriesInv, NamedInv
<1>5. PassedInv'
  <2> SUFFICES ASSUME NEW p \in Old!Found', step = "done" \/ (step = "old" /\ p \notin todo)
               PROVE  \/ p \in deciding \/ (Old!LinkedEntry(p).base = "support")'
                      \/ (Old!Identity(p))' \in identities
    BY <1>0 DEF PassedInv
  <2>1. /\ p \in Old!Retired /\ p \in Old!Everywhere /\ env.mac /\ p.base # "support"
        /\ where[p.base] \in {p.base, "support"}
        /\ where[p.base] = "support" => (Old!LinkedEntry(p).base = "support")'
        /\ where[p.base] = p.base => Old!At(p)' = file'[p]
    <3>1. (/\ p \in Old!Retired /\ p \in Old!Everywhere /\ env.mac /\ p.base # "support"
           /\ where[p.base] \in {p.base, "support"}
           /\ where[p.base] = "support" => Old!LinkedEntry(p).base = "support"
           /\ where[p.base] = p.base => Old!At(p) = file[p])'
      <4>1. FoundAre'
        BY <1>2, FoundKinds, PTL
      <4> QED
        BY <4>1 DEF FoundAre
    <3> QED
      BY <1>0, <1>1, <1>3, <3>1
  <2>2. c.base = "support" /\ where["support"] = "support"
    BY <1>0, <2>1, PathsKnown DEF FilesInv
  <2>3. /\ p.base \notin Bare /\ "support" \notin Bare
    BY <1>0, <2>1, BaseLeads DEF FilesInv
  <2>4. CASE where[p.base] = p.base
    <3>1. Old!At(p)' = Old!At(p) /\ Old!At(p) = file[p] /\ p \in Old!Found
      <4>1. Old!At(p)' = file'[p] /\ file'[p] = file[p]
        BY <1>1, <2>1, <2>2, <2>4
      <4>2. Old!DirectoryEntry(p) = p
        BY <1>0, <2>1, <2>4, EntryOf DEF FilesInv
      <4>3. Old!At(p) = file[p]
        BY <2>3, <2>4, <4>2 DEF Old!At, Bare
      <4>4. (Old!At(p).kind # "none")'
        BY DEF Old!Found
      <4> QED
        BY <2>1, <4>1, <4>3, <4>4 DEF Old!Found
    <3>2. \/ p \in deciding \/ Old!LinkedEntry(p).base = "support" \/ Old!Identity(p) \in identities
      BY <3>1 DEF NamesInv, PassedInv
    <3>3. CASE Old!At(p).kind = "file"
      <4>1. Old!LinkedEntry(p) = p /\ Old!LinkedEntry(p)' = p
        <5>1. Old!DirectoryEntry(p) = p
          BY <1>0, <2>1, <2>4, EntryOf DEF FilesInv
        <5>2. Old!LinkedEntry(p) = Old!DirectoryEntry(p)
          BY <3>3 DEF Old!LinkedEntry
        <5>3. (Old!LinkedEntry(p) = Old!DirectoryEntry(p))'
          BY <3>1, <3>3 DEF Old!LinkedEntry
        <5> QED
          BY <1>3, <5>1, <5>2, <5>3
      <4>2. Old!Identity(p)' = file'[p].inode /\ Old!Identity(p) = file[p].inode
        BY <2>3, <4>1 DEF Old!Identity, Bare
      <4>3. file'[p] = file[p]
        BY <1>1, <2>1, <2>2
      <4> QED
        BY <3>2, <4>1, <4>2, <4>3
    <3>4. CASE Old!At(p).kind # "file"
      <4>1. /\ Old!LinkedEntry(p).base \in {"support", Old!Lost}
            /\ Old!LinkedEntry(p).base = "support" <=>
                 Old!At(p).kind = "link" /\ Old!At(Old!CurrentOf(p)).kind = "file"
            /\ Old!LinkedEntry(p).base = Old!Lost => Old!Identity(p) = 0
        BY <1>0, <2>1, <3>4, LinkLeads DEF LinksLead
      <4>2. (Old!LinkedEntry(p).base = "support" <=>
                 Old!At(p).kind = "link" /\ Old!At(Old!CurrentOf(p)).kind = "file")'
        <5>1. (p \in Old!Everywhere /\ Old!At(p).kind # "file")'
          BY <1>1, <2>1, <3>1, <3>4
        <5>2. LinksLead'
          BY <1>2, LinkLeads, PTL
        <5> QED
          BY <5>1, <5>2 DEF LinksLead
      <4>3. Old!At(Old!CurrentOf(p)).kind = "file" => (Old!At(Old!CurrentOf(p)).kind = "file")'
        <5> DEFINE q == Old!CurrentOf(p)
        <5>1. q \in Old!Everywhere /\ q.base = "support" /\ q' = q
          BY <1>3, <2>1, OneCurrent
        <5>2. Old!DirectoryEntry(q) = q
          BY <1>0, <2>2, <5>1, EntryOf DEF FilesInv
        <5>3. Old!At(q) = file[q]
          BY <2>2, <2>3, <5>1, <5>2 DEF Old!At, Bare
        <5>4. (Old!At(q) = file[q])'
          BY <1>0, <1>3, <2>2, <2>3, <5>1, <5>2 DEF Old!At, Bare, Old!Lost, Old!Broken
        <5> QED
          BY <1>1, <5>1, <5>3, <5>4
      <4>4. 0 \notin identities
        BY <1>0 DEF EntriesInv
      <4> QED
        BY <3>1, <3>2, <4>1, <4>2, <4>3, <4>4
    <3> QED
      BY <3>3, <3>4
  <2> QED
    BY <2>1, <2>4
<1> QED
  BY <1>2, <1>4, <1>5 DEF NamesInv

LEMMA NamesStep ==
    ASSUME NamesInv, [Old!Next]_(Old!vars)
    PROVE  NamesInv'
<1>1. CASE UNCHANGED Old!vars
  <2>1. UNCHANGED <<env, where, file, step, todo, entries, identities, deciding, named, saves>>
    BY <1>1 DEF Old!vars
  <2>2. FilesInv'
    BY <2>1 DEF NamesInv, FilesInv, Old!Everywhere, Old!Bases
  <2> QED
    BY <2>1, <2>2, SameFiles DEF NamesInv, EntriesInv, PassedInv, NamedInv
<1>2. ASSUME NEW p \in Old!Everywhere, Old!ReadCurrent(p) \/ Old!ReadIdentity(p) \/ Old!ReadOld(p)
      PROVE  NamesInv'
  BY <1>2, NamesReadCurrent, NamesReadIdentity, NamesReadOld
<1>3. ASSUME NEW c \in Old!Current, Old!Save(c)
      PROVE  NamesInv'
  BY <1>3, NamesSave
<1> QED
  BY <1>1, <1>2, <1>3 DEF Old!Next

\* The files, what leftovers knows of them and what it has found agree in every state.
THEOREM NamesInductive == Old!Spec => []NamesInv
<1>1. Old!Init => NamesInv
  BY NamesInit
<1>2. NamesInv /\ [Old!Next]_(Old!vars) => NamesInv'
  BY NamesStep
<1> QED
  BY <1>1, <1>2, PTL DEF Old!Spec

\* The user is never told to remove a file of the current store, and every other old
\* file decides, whatever the names and links and however often the store is saved
\* meanwhile (leftovers).
THEOREM OldFilesAreTold == Old!Spec => []OldIsTold
<1>1. NamesInv => OldIsTold
  BY DEF NamesInv, NamedInv, PassedInv, OldIsTold, Old!OldIsTold
<1> QED
  BY <1>1, NamesInductive, PTL
=============================================================================
