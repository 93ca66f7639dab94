-------------------------- MODULE SnapshotsProofs --------------------------
(***************************************************************************)
(* What the saves of the snapshot manager guarantee for every number of    *)
(* answers, processes and saves by the timer, with crashes and failures at *)
(* any step: one save at a time, a file that is always whole, and never an *)
(* older one in the place of a newer one.                                  *)
(***************************************************************************)
EXTENDS Snapshots, FiniteSetTheorems, SequenceTheorems, TLAPS

Active == {"exporting", "writing", "written"}

(* What the steps of a save need to know of the shape of its state.        *)
Shape ==
    /\ DOMAIN saver = Savers
    /\ \A s \in Savers : /\ DOMAIN saver[s] = {"pc", "data"}
                         /\ DOMAIN saver[s].data = {"whole", "exact", "semantic", "at"}

(* The temporary file of a save is whole by the time it is renamed.        *)
WrittenWhole == \A s \in Savers : saver[s].pc = "written" => saver[s].data.whole

(* A save under way was exported after the file's, and not in the future.  *)
Newer ==
    /\ now \in Nat
    /\ \A f \in file : f.at \in Nat /\ f.at <= now
    /\ \A s \in Savers : saver[s].pc \in Active =>
          /\ saver[s].data.at \in Nat /\ saver[s].data.at <= now
          /\ \A f \in file : f.at <= saver[s].data.at

IInv == Shape /\ LockInUse /\ WrittenWhole /\ FileWhole /\ Newer

LEMMA InitIInv == Init => IInv
BY SnapshotAssumption, SMT
   DEF Init, IInv, Shape, LockInUse, WrittenWhole, FileWhole, Newer, Idle, Blank, Snapshot,
       Active, Savers

(* Steps that leave the saves, the lock and the file alone.                *)
LEMMA StepAside ==
    ASSUME IInv, UNCHANGED <<saver, holder, file>>, now' \in Nat, now' >= now
    PROVE  IInv'
BY SMT DEF IInv, Shape, LockInUse, WrittenWhole, FileWhole, Newer

(* A new process, or a dead one, has no save under way.                    *)
LEMMA StepReset ==
    ASSUME IInv, saver' = Idle, holder' = None, UNCHANGED <<file, now>>
    PROVE  IInv'
BY SnapshotAssumption, SMT
   DEF IInv, Shape, LockInUse, WrittenWhole, FileWhole, Newer, Idle, Blank, Snapshot, Active,
       Savers

LEMMA IInvReflects == IInv => \A old \in file : \E new \in file : new.at >= old.at
BY SMT DEF IInv, Newer

LEMMA SaverStep ==
    ASSUME IInv, NEW s \in Savers,
           Lock(s) \/ ExportSemantic(s) \/ Write(s) \/ Rename(s) \/ SaveFails(s)
    PROVE  IInv' /\ \A old \in file : \E new \in file' : new.at >= old.at
<1> USE DEF IInv, Shape, LockInUse, WrittenWhole, FileWhole, Newer, Active
<1>1. CASE Lock(s)
  <2> DEFINE data == Snapshot(FALSE, ExactExport, <<>>, now)
  <2>1. /\ saver' = [saver EXCEPT ![s] = [pc |-> "exporting", data |-> data]]
        /\ holder = None /\ holder' = s /\ UNCHANGED <<now, file>>
    BY <1>1 DEF Lock
  <2>2. /\ data.at = now
        /\ DOMAIN data = {"whole", "exact", "semantic", "at"}
    BY DEF Snapshot
  <2> HIDE DEF data
  <2>3. None \notin Savers
    BY SnapshotAssumption DEF Savers
  <2>4. /\ saver'[s].pc = "exporting" /\ saver'[s].data = data
        /\ \A t \in Savers : t # s => saver'[t] = saver[t]
        /\ DOMAIN saver' = Savers /\ DOMAIN saver'[s] = {"pc", "data"}
    BY <2>1, SMT
  <2>5. Shape'
    BY <2>2, <2>4
  <2>6. LockInUse'
    BY <2>1, <2>3, <2>4
  <2>7. WrittenWhole' /\ FileWhole'
    BY <2>1, <2>4
  <2>8. Newer'
    BY <2>1, <2>2, <2>4, SMT
  <2>9. \A old \in file : \E new \in file' : new.at >= old.at
    BY <2>1, SMT
  <2> HIDE DEF Shape, LockInUse, WrittenWhole, FileWhole, Newer
  <2> QED BY <2>5, <2>6, <2>7, <2>8, <2>9
<1>2. CASE ExportSemantic(s)
  BY <1>2, SMT DEF ExportSemantic
<1>3. CASE Write(s)
  BY <1>3, SMT DEF Write
<1>4. CASE Rename(s)
  BY <1>4, SnapshotAssumption, SMT DEF Rename, Return, Idle, Blank, Snapshot, Savers
<1>5. CASE SaveFails(s)
  <2>1. /\ saver' = [saver EXCEPT ![s] = Idle[s]] /\ holder' = None
        /\ UNCHANGED <<now, file>> /\ saver[s].pc \in Active
    BY <1>5 DEF SaveFails, Return
  <2>2. None \notin Savers /\ DOMAIN Blank = {"whole", "exact", "semantic", "at"}
    BY SnapshotAssumption DEF Savers, Blank, Snapshot
  <2>3. /\ Idle[s].pc = "idle" /\ DOMAIN Idle[s] = {"pc", "data"} /\ Idle[s].data = Blank
    BY DEF Idle
  <2> HIDE DEF Active
  <2>4. /\ \A t \in Savers : t # s => saver'[t] = saver[t]
        /\ saver'[s] = Idle[s] /\ DOMAIN saver' = Savers
    BY <2>1, SMT
  <2> USE DEF Active
  <2>5. Shape'
    BY <2>2, <2>3, <2>4
  <2>6. LockInUse'
    BY <2>1, <2>2, <2>3, <2>4
  <2>7. WrittenWhole' /\ FileWhole' /\ Newer'
    BY <2>1, <2>3, <2>4
  <2> HIDE DEF Shape, LockInUse, WrittenWhole, FileWhole, Newer
  <2> QED BY <2>1, <2>5, <2>6, <2>7, IInvReflects
<1> QED BY <1>1, <1>2, <1>3, <1>4, <1>5

LEMMA OtherStep ==
    ASSUME IInv, Next, \A s \in Savers :
              ~(Lock(s) \/ ExportSemantic(s) \/ Write(s) \/ Rename(s) \/ SaveFails(s))
    PROVE  IInv' /\ UNCHANGED file
<1>1. CASE \/ \E e \in exact : ExactGet(e)
           \/ \E a \in Answers : Store(a)
           \/ \E a \in writers : WriteSemantic(a)
           \/ PurgeExact \/ PurgeSemantic
  <2>1. UNCHANGED <<saver, holder, file, now>>
    BY <1>1 DEF ExactGet, Store, WriteSemantic, PurgeExact, PurgeSemantic, process
  <2> QED BY <2>1, StepAside, SMT DEF IInv, Newer
<1>2. CASE Tick
  BY <1>2, SMT DEF Tick, Saving, IInv, Shape, LockInUse, WrittenWhole, FileWhole, Newer, Active,
                   Savers
<1>3. CASE Stop
  BY <1>3, SMT DEF Stop, Saving, IInv, Shape, LockInUse, WrittenWhole, FileWhole, Newer, Active,
                   Savers
<1>4. CASE Restore \/ StartEmpty \/ Exit \/ Crash
  <2>1. saver' = Idle /\ holder' = None /\ UNCHANGED <<file, now>>
    BY <1>4 DEF Restore, StartEmpty, Exit, Crash, Begin
  <2> QED BY <2>1, StepReset
<1>5. CASE Pass
  <2>1. UNCHANGED <<saver, holder, file>> /\ now' = now + 1
    BY <1>5 DEF Pass, process
  <2> QED BY <2>1, StepAside, SMT DEF IInv, Newer
<1> QED BY <1>1, <1>2, <1>3, <1>4, <1>5 DEF Next

LEMMA StepIInv ==
    ASSUME IInv, [Next]_vars
    PROVE  IInv' /\ \A old \in file : \E new \in file' : new.at >= old.at
<1>1. CASE \E s \in Savers :
              Lock(s) \/ ExportSemantic(s) \/ Write(s) \/ Rename(s) \/ SaveFails(s)
  BY <1>1, SaverStep
<1>2. CASE Next /\ ~\E s \in Savers :
              Lock(s) \/ ExportSemantic(s) \/ Write(s) \/ Rename(s) \/ SaveFails(s)
  <2>1. IInv' /\ UNCHANGED file
    BY <1>2, OtherStep
  <2> QED BY <2>1, SMT DEF IInv, Newer
<1>3. CASE UNCHANGED vars
  <2>1. UNCHANGED <<saver, holder, file, now>>
    BY <1>3 DEF vars, process
  <2> QED BY <2>1, StepAside, SMT DEF IInv, Newer
<1> QED BY <1>1, <1>2, <1>3

LEMMA IInvHolds == Spec => []IInv
BY InitIInv, StepIInv, PTL DEF Spec

(* One save at a time: whoever is between the lock and the return of       *)
(* SaveSnapshot holds the lock, however the save ends.                     *)
THEOREM SavesExclude == Spec => []LockInUse
<1>1. IInv => LockInUse
  BY DEF IInv
<1> QED BY <1>1, IInvHolds, PTL

(* The file is whole at every moment, and so after a crash at any moment.  *)
THEOREM FileIsWhole == Spec => []FileWhole
<1>1. IInv => FileWhole
  BY DEF IInv
<1> QED BY <1>1, IInvHolds, PTL

(* The timer's save and main's never put older caches in the place of      *)
(* newer ones.                                                             *)
THEOREM SavesInOrder == Spec => NeverOlder
<1>1. IInv /\ [Next]_vars => [\A old \in file : \E new \in file' : new.at >= old.at]_vars
  BY StepIInv
<1> QED BY <1>1, IInvHolds, PTL DEF Spec, NeverOlder

-----------------------------------------------------------------------------
(* The operations on the semantic cache are those of module SemanticCache, *)
(* and the lemmas about them those of its proofs, which hold here because  *)
(* what that module assumes of its constants does.                         *)
Facts == INSTANCE SemanticCacheProofs WITH
    Prompts <- Requests, Models <- Requests,
    Score <- Alike, Threshold <- 0, TTL <- SemanticTTL,
    Capacities <- {}, Files <- {}, log <- <<>>, cleared <- 0

Entry == SemanticCache!Entry

LEMMA CacheAssumption == Facts!SemanticAssumption
BY SnapshotAssumption DEF Facts!SemanticAssumption, Alike, Facts!Entry

LEMMA SameCardinality ==
  \A I : /\ Facts!Cardinality(I) = SemanticCache!Cardinality(I)
         /\ Cardinality(I) = SemanticCache!Cardinality(I)
BY DEF Facts!Cardinality, SemanticCache!Cardinality, Cardinality

LEMMA SameNth ==
  \A I, n : /\ Facts!Nth(I, n) = SemanticCache!Nth(I, n)
            /\ Nth(I, n) = SemanticCache!Nth(I, n)
<1>1. \A I, n : /\ Facts!Rank(I, n) = SemanticCache!Rank(I, n)
                /\ Rank(I, n) = SemanticCache!Rank(I, n)
  BY SameCardinality DEF Facts!Rank, SemanticCache!Rank, Rank
<1> QED BY <1>1 DEF Facts!Nth, SemanticCache!Nth, Nth

LEMMA SameLives ==
  \A e : /\ Facts!Lives(e) <=> SemanticCache!Lives(e)
         /\ Lives(e) <=> SemanticCache!Lives(e)
BY DEF Facts!Lives, SemanticCache!Lives, Lives

LEMMA SameKept ==
  ASSUME NEW s
  PROVE  /\ Facts!Kept(s, Facts!Lives) = SemanticCache!Kept(s, SemanticCache!Lives)
         /\ Kept(s, Lives) = SemanticCache!Kept(s, SemanticCache!Lives)
<1> DEFINE I == {i \in DOMAIN s : SemanticCache!Lives(s[i])}
<1>1. /\ Facts!Kept(s, Facts!Lives) = Facts!Sublist(s, I)
      /\ Kept(s, Lives) = Sublist(s, I)
      /\ SemanticCache!Kept(s, SemanticCache!Lives) = SemanticCache!Sublist(s, I)
  <2>1. /\ I = Facts!Passing(s, Facts!Lives)
        /\ I = Passing(s, Lives)
        /\ I = SemanticCache!Passing(s, SemanticCache!Lives)
    BY SameLives DEF Facts!Passing, Passing, SemanticCache!Passing
  <2> HIDE DEF I
  <2> QED BY <2>1 DEF Facts!Kept, Kept, SemanticCache!Kept
<1> HIDE DEF I
<1>2. /\ Facts!Sublist(s, I) = SemanticCache!Sublist(s, I)
      /\ Sublist(s, I) = SemanticCache!Sublist(s, I)
  BY SameCardinality, SameNth DEF Facts!Sublist, SemanticCache!Sublist, Sublist
<1> QED BY <1>1, <1>2

LEMMA SameToSet == \A s : Facts!ToSet(s) = ToSet(s) /\ SemanticCache!ToSet(s) = ToSet(s)
BY DEF Facts!ToSet, ToSet, SemanticCache!ToSet

LEMMA AddedSet ==
  ASSUME semantic \in Seq(Entry), capacity \in Nat \ {0}, Len(semantic) <= capacity,
         now \in Nat, NEW a \in Answers
  PROVE  LET new == SemanticCache!Added(semantic, Asked[a], Asked[a], a) IN
         /\ new \in Seq(Entry) /\ Len(new) <= capacity
         /\ \A e \in ToSet(new) : e \in ToSet(semantic) \/ e.answer = a
<1>1. [prompt |-> Asked[a], model |-> Asked[a], answer |-> a,
      expiresAt |-> now + SemanticTTL] \in Entry
  BY SnapshotAssumption DEF Entry, SemanticCache!Entry, Requests
<1>2. Facts!MakeRoom(semantic) = SemanticCache!MakeRoom(semantic)
  BY SameKept DEF Facts!MakeRoom, SemanticCache!MakeRoom,
     Facts!DropCount, SemanticCache!DropCount
<1>3. Facts!Added(semantic, Asked[a], Asked[a], a)
         = SemanticCache!Added(semantic, Asked[a], Asked[a], a)
  BY <1>2 DEF Facts!Added, SemanticCache!Added
<1> DEFINE new == Facts!Added(semantic, Asked[a], Asked[a], a)
<1>4. /\ new \in Seq(Entry) /\ Len(new) <= capacity
      /\ \A e \in Facts!ToSet(new) : e \in Facts!ToSet(semantic) \/ e.answer = a
  BY <1>1, Facts!AddedSet, CacheAssumption
<1> QED BY <1>3, <1>4, SameToSet

LEMMA ExportSet ==
  ASSUME semantic \in Seq(Entry)
  PROVE  LET out == SemanticCache!ExportEntries(semantic) IN
         /\ out \in Seq(Entry)
         /\ ToSet(out) = {e \in ToSet(semantic) : Lives(e)}
<1>1. Facts!ExportEntries(semantic) = SemanticCache!ExportEntries(semantic)
  BY SameKept DEF Facts!ExportEntries, SemanticCache!ExportEntries
<1>2. /\ Facts!ExportEntries(semantic) \in Seq(Entry)
      /\ Facts!ToSet(Facts!ExportEntries(semantic))
            = {e \in Facts!ToSet(semantic) : Facts!Lives(e)}
  BY Facts!ExportSet, CacheAssumption
<1> QED BY <1>1, <1>2, SameLives, SameToSet

LEMMA ImportSet ==
  ASSUME NEW s \in Seq(Entry), NEW limit \in Nat
  PROVE  LET in == SemanticCache!ImportEntries(s, limit) IN
         /\ in \in Seq(Entry) /\ Len(in) <= limit
         /\ ToSet(in) \subseteq ToSet(s)
<1>1. Facts!ImportEntries(s, limit) = SemanticCache!ImportEntries(s, limit)
  BY SameKept DEF Facts!ImportEntries, SemanticCache!ImportEntries, Facts!Min, SemanticCache!Min
<1> DEFINE in == Facts!ImportEntries(s, limit)
<1>2. /\ in \in Seq(Entry) /\ Len(in) <= limit
      /\ Facts!ToSet(in) \subseteq Facts!ToSet(s)
  BY Facts!ImportSet, CacheAssumption
<1> QED BY <1>1, <1>2, SameToSet

-----------------------------------------------------------------------------
(* The type invariant.                                                     *)

(* The sets are finite, the caches of a process have room, and the file is *)
(* one or none.                                                            *)
Sized ==
    /\ IsFiniteSet(exact)
    /\ \A f \in file : IsFiniteSet(f.exact)
    /\ \A s \in Savers : IsFiniteSet(saver[s].data.exact)
    /\ Up => capacity # 0
    /\ file = {} \/ \E f : file = {f}

Typed == TypeOK /\ Shape /\ Sized

LEMMA SomeFacts ==
  ASSUME NEW S, IsFiniteSet(S), NEW k \in Nat, NEW T \in SomeOf(S, k)
  PROVE  /\ T \subseteq S /\ IsFiniteSet(T) /\ Cardinality(T) <= k
         /\ Cardinality(S) \in Nat
         /\ Cardinality(T) = IF Cardinality(S) <= k THEN Cardinality(S) ELSE k
<1>1. Cardinality(S) \in Nat
  BY FS_CardinalityType
<1>2. T \in SUBSET S /\ Cardinality(T) = IF Cardinality(S) <= k THEN Cardinality(S) ELSE k
  BY DEF SomeOf, kSubset
<1>3. IsFiniteSet(T)
  BY <1>2, FS_Subset
<1> QED BY <1>1, <1>2, <1>3

LEMMA OneFile ==
  ASSUME NEW F, F = {} \/ \E f : F = {f}
  PROVE  Cardinality(F) <= 1
<1>1. CASE F = {}
  BY <1>1, FS_EmptySet
<1>2. ASSUME NEW f, F = {f} PROVE Cardinality(F) <= 1
  <2>1. Cardinality({f}) = 1
    BY FS_Singleton
  <2> QED BY <1>2, <2>1
<1> QED BY <1>1, <1>2

LEMMA ExactEntries ==
  ASSUME Typed, NEW a \in Answers
  PROVE  [answer |-> a, expiresAt |-> now + ExactTTL] \in ExactEntry
BY SnapshotAssumption DEF Typed, TypeOK, ExactEntry

(* Steps that leave the saves and the file alone.                          *)
LEMMA CacheTyped ==
    ASSUME Typed, UNCHANGED <<file, saver, holder, life, boots, ticks, final, capacity, now>>,
           exact' \subseteq ExactEntry, IsFiniteSet(exact'), Cardinality(exact') <= capacity,
           semantic' \in Seq(Entry), Len(semantic') <= capacity,
           writers' \subseteq Answers, purging' \in BOOLEAN, stored' \in Nat
    PROVE  Typed'
<1>1. Shape' /\ Sized'
  BY DEF Typed, Shape, Sized, Up
<1>2. TypeOK'
  BY DEF Typed, TypeOK, SnapshotTypeOK, Entry, ExactEntry
<1> QED BY <1>1, <1>2 DEF Typed

LEMMA CacheSteps ==
    ASSUME Typed,
           \/ \E e \in exact : ExactGet(e)
           \/ \E a \in Answers : Store(a)
           \/ \E a \in writers : WriteSemantic(a)
           \/ PurgeExact \/ PurgeSemantic
    PROVE  Typed'
<1>1. /\ exact \subseteq ExactEntry /\ IsFiniteSet(exact) /\ Cardinality(exact) <= capacity
      /\ semantic \in Seq(Entry) /\ Len(semantic) <= capacity
      /\ writers \subseteq Answers /\ purging \in BOOLEAN /\ stored \in Nat
      /\ capacity \in Nat /\ now \in Nat /\ (Up => capacity # 0)
  BY SnapshotAssumption DEF Typed, TypeOK, Sized, Entry
<1>2. Cardinality(exact) \in Nat /\ Len(semantic) \in Nat
  BY <1>1, FS_CardinalityType, LenProperties
<1>3. ASSUME NEW e \in exact, ExactGet(e) PROVE Typed'
  <2>1. /\ IsFiniteSet(exact \ {e}) /\ Cardinality(exact \ {e}) <= Cardinality(exact)
        /\ Cardinality(exact \ {e}) \in Nat
    BY <1>1, FS_Subset, FS_CardinalityType
  <2>2. /\ exact' = exact \ {e}
        /\ UNCHANGED <<file, saver, holder, life, boots, ticks, final, capacity, now, semantic,
                       writers, purging, stored>>
    BY <1>3 DEF ExactGet, process, history
  <2>3. Cardinality(exact') <= capacity
    BY <1>1, <1>2, <2>1, <2>2
  <2> QED BY <1>1, <2>1, <2>2, <2>3, CacheTyped
<1>4. ASSUME NEW a \in Answers, Store(a) PROVE Typed'
  <2> DEFINE others == {e \in exact : Asked[e.answer] # Asked[a]}
             new    == [answer |-> a, expiresAt |-> now + ExactTTL]
  <2>1. capacity - 1 \in Nat /\ a \in Nat
    BY <1>1, <1>4, SnapshotAssumption DEF Store
  <2>2. PICK kept \in SomeOf(others, capacity - 1) : exact' = kept \cup {new}
    BY <1>4 DEF Store
  <2>3. IsFiniteSet(others) /\ others \subseteq exact
    BY <1>1, FS_Subset
  <2>4. new \in ExactEntry
    BY ExactEntries
  <2> HIDE DEF others, new
  <2>5. kept \subseteq others /\ IsFiniteSet(kept) /\ Cardinality(kept) <= capacity - 1
    BY <2>1, <2>3, SomeFacts
  <2>6. Cardinality(kept) \in Nat
    BY <2>5, FS_CardinalityType
  <2>7. IsFiniteSet(exact') /\ Cardinality(exact') <= capacity
    <3>1. /\ IsFiniteSet(kept \cup {new})
          /\ Cardinality(kept \cup {new}) = IF new \in kept THEN Cardinality(kept)
                                            ELSE Cardinality(kept) + 1
      BY <2>5, FS_AddElement
    <3>2. Cardinality(kept \cup {new}) <= Cardinality(kept) + 1
      BY <2>6, <3>1
    <3> QED BY <1>1, <2>2, <2>5, <2>6, <3>1, <3>2
  <2>8. exact' \subseteq ExactEntry
    BY <1>1, <2>2, <2>3, <2>4, <2>5
  <2>9. /\ stored' = a /\ writers' = writers \cup {a}
        /\ UNCHANGED <<file, saver, holder, life, boots, ticks, final, capacity, now, semantic,
                       purging>>
    BY <1>4 DEF Store, process
  <2> QED BY <1>1, <2>1, <2>7, <2>8, <2>9, CacheTyped
<1>5. ASSUME NEW a \in writers, WriteSemantic(a) PROVE Typed'
  <2>1. capacity \in Nat \ {0}
    BY <1>1, <1>5 DEF WriteSemantic
  <2>2. semantic' \in Seq(Entry) /\ Len(semantic') <= capacity
    BY <1>1, <1>5, <2>1, AddedSet DEF WriteSemantic
  <2>3. /\ writers' = writers \ {a}
        /\ UNCHANGED <<file, saver, holder, life, boots, ticks, final, capacity, now, exact,
                       purging, stored>>
    BY <1>5 DEF WriteSemantic, process
  <2> QED BY <1>1, <2>2, <2>3, CacheTyped
<1>6. CASE PurgeExact
  <2>1. IsFiniteSet({}) /\ Cardinality({}) <= capacity
    BY <1>1, FS_EmptySet
  <2> QED BY <1>1, <1>6, <2>1, CacheTyped DEF PurgeExact, process
<1>7. CASE PurgeSemantic
  <2>1. <<>> \in Seq(Entry) /\ Len(<<>>) <= capacity
    BY <1>1, EmptySeq
  <2> QED BY <1>1, <1>7, <2>1, CacheTyped DEF PurgeSemantic, process
<1> QED BY <1>3, <1>4, <1>5, <1>6, <1>7

(* Steps that leave the caches alone.                                      *)
LEMMA SaveTyped ==
    ASSUME Typed, Shape', UNCHANGED <<caches, now, boots, stored>>,
           ticks' \in 0 .. MaxTicks, holder' \in Savers \cup {None},
           life' \in {"serving", "stopping", "draining", "exited"}, life # "down",
           Up' => Up, final' \in {"none", "saved", "failed"},
           file' = file \/ \E f : file' = {f} /\ SnapshotTypeOK(f) /\ IsFiniteSet(f.exact),
           \A s \in Savers :
              /\ saver'[s].pc \in {"idle", "waiting", "exporting", "writing", "written"}
              /\ SnapshotTypeOK(saver'[s].data) /\ IsFiniteSet(saver'[s].data.exact)
    PROVE  Typed'
<1>1. Sized' /\ \A f \in file' : SnapshotTypeOK(f)
  BY DEF Typed, Sized, TypeOK, caches
<1>2. Cardinality(file)' <= 1
  <2>1. (file = {})' \/ (\E f : file = {f})'
    BY <1>1 DEF Sized
  <2> QED BY <2>1, OneFile
<1> QED BY <1>1, <1>2, SMT DEF Typed, TypeOK, SnapshotTypeOK, caches

LEMMA TypedFacts ==
  ASSUME Typed
  PROVE  /\ DOMAIN saver = Savers
         /\ \A s \in Savers :
              /\ DOMAIN saver[s] = {"pc", "data"}
              /\ DOMAIN saver[s].data = {"whole", "exact", "semantic", "at"}
              /\ saver[s].pc \in {"idle", "waiting", "exporting", "writing", "written"}
              /\ SnapshotTypeOK(saver[s].data) /\ IsFiniteSet(saver[s].data.exact)
         /\ holder \in Savers \cup {None} /\ final \in {"none", "saved", "failed"}
         /\ ticks \in 0 .. MaxTicks /\ ticks \in Nat /\ MaxTicks \in Nat
         /\ exact \subseteq ExactEntry /\ semantic \in Seq(Entry) /\ now \in Nat
         /\ IsFiniteSet(exact)
         /\ life \in {"down", "serving", "stopping", "draining", "exited"}
BY SnapshotAssumption DEF Typed, TypeOK, Shape, Sized, Entry

LEMMA BlankFacts ==
  /\ DOMAIN Blank = {"whole", "exact", "semantic", "at"}
  /\ SnapshotTypeOK(Blank) /\ IsFiniteSet(Blank.exact)
  /\ DOMAIN Idle = Savers
  /\ \A s \in Savers : /\ DOMAIN Idle[s] = {"pc", "data"} /\ Idle[s].pc = "idle"
                       /\ Idle[s].data = Blank
<1>1. /\ Blank.whole = FALSE /\ Blank.exact = {} /\ Blank.semantic = <<>> /\ Blank.at = 0
      /\ DOMAIN Blank = {"whole", "exact", "semantic", "at"}
  BY DEF Blank, Snapshot
<1>2. <<>> \in Seq(SemanticCache!Entry)
  OBVIOUS
<1> HIDE DEF Blank
<1>3. IsFiniteSet(Blank.exact)
  BY <1>1, FS_EmptySet
<1>4. SnapshotTypeOK(Blank)
  <2>1. Blank.whole \in BOOLEAN
    BY <1>1, Zenon
  <2>2. Blank.at \in Nat /\ Blank.exact \subseteq ExactEntry
    BY <1>1
  <2>3. Blank.semantic \in Seq(SemanticCache!Entry)
    BY <1>1, <1>2
  <2> QED BY <2>1, <2>2, <2>3, Zenon DEF SnapshotTypeOK
<1> QED BY <1>1, <1>3, <1>4 DEF Idle

(* A call that moves on in SaveSnapshot, with what it has of the snapshot. *)
LEMMA MoveTyped ==
  ASSUME Typed, NEW s \in Savers, NEW pc, NEW data,
         pc \in {"idle", "waiting", "exporting", "writing", "written"},
         DOMAIN data = {"whole", "exact", "semantic", "at"},
         SnapshotTypeOK(data), IsFiniteSet(data.exact),
         DOMAIN saver' = Savers, DOMAIN saver'[s] = {"pc", "data"},
         saver'[s].pc = pc, saver'[s].data = data,
         \A t \in Savers : t # s => saver'[t] = saver[t]
  PROVE  /\ Shape'
         /\ \A t \in Savers :
              /\ saver'[t].pc \in {"idle", "waiting", "exporting", "writing", "written"}
              /\ SnapshotTypeOK(saver'[t].data) /\ IsFiniteSet(saver'[t].data.exact)
BY TypedFacts, SMT DEF Shape

LEMMA SaveSteps ==
    ASSUME Typed, NEW s \in Savers,
           Lock(s) \/ ExportSemantic(s) \/ Write(s) \/ Rename(s) \/ SaveFails(s),
           life \in {"serving", "stopping", "draining"}
    PROVE  Typed'
<1>1. /\ saver[s].pc \in {"idle", "waiting", "exporting", "writing", "written"}
      /\ SnapshotTypeOK(saver[s].data) /\ IsFiniteSet(saver[s].data.exact)
      /\ DOMAIN saver[s].data = {"whole", "exact", "semantic", "at"}
      /\ DOMAIN saver = Savers /\ DOMAIN saver[s] = {"pc", "data"}
  BY TypedFacts
<1>2. life # "down" /\ (life' \in {"stopping", "draining", "serving"} => (Up' => Up))
  BY DEF Up
<1>3. /\ holder \in Savers \cup {None} /\ final \in {"none", "saved", "failed"}
      /\ ticks \in 0 .. MaxTicks /\ exact \subseteq ExactEntry /\ IsFiniteSet(exact)
      /\ semantic \in Seq(Entry) /\ now \in Nat
  BY TypedFacts
<1>4. CASE Lock(s)
  <2> DEFINE data == Snapshot(FALSE, ExactExport, <<>>, now)
  <2>1. /\ data.whole = FALSE /\ data.exact = ExactExport /\ data.semantic = <<>>
        /\ data.at = now /\ DOMAIN data = {"whole", "exact", "semantic", "at"}
    BY DEF Snapshot
  <2>2. /\ saver' = [saver EXCEPT ![s] = [pc |-> "exporting", data |-> data]]
        /\ holder' = s
        /\ UNCHANGED <<caches, now, file, life, boots, ticks, stored, history>>
    BY <1>4 DEF Lock
  <2>3. ExactExport \subseteq exact /\ <<>> \in Seq(SemanticCache!Entry)
    BY DEF ExactExport
  <2> HIDE DEF data
  <2>4. IsFiniteSet(data.exact) /\ SnapshotTypeOK(data)
    BY <1>3, <2>1, <2>3, FS_Subset DEF SnapshotTypeOK
  <2>5. /\ saver'[s].pc = "exporting" /\ saver'[s].data = data
        /\ DOMAIN saver' = Savers /\ DOMAIN saver'[s] = {"pc", "data"}
        /\ \A t \in Savers : t # s => saver'[t] = saver[t]
    BY <1>1, <2>2, SMT
  <2>6. /\ Shape'
        /\ \A t \in Savers :
              /\ saver'[t].pc \in {"idle", "waiting", "exporting", "writing", "written"}
              /\ SnapshotTypeOK(saver'[t].data) /\ IsFiniteSet(saver'[t].data.exact)
    BY <2>1, <2>4, <2>5, MoveTyped
  <2> QED BY <1>2, <1>3, <2>2, <2>6, SaveTyped DEF history
<1>5. CASE ExportSemantic(s)
  <2> DEFINE out == SemanticCache!ExportEntries(semantic)
  <2>1. /\ saver' = [saver EXCEPT ![s].pc = "writing", ![s].data.semantic = out]
        /\ UNCHANGED <<caches, now, file, holder, life, boots, ticks, stored, history>>
    BY <1>5 DEF ExportSemantic
  <2>2. out \in Seq(SemanticCache!Entry)
    BY <1>3, ExportSet DEF Entry
  <2> HIDE DEF out
  <2>3. /\ saver'[s].pc = "writing" /\ DOMAIN saver' = Savers
        /\ DOMAIN saver'[s] = {"pc", "data"}
        /\ \A t \in Savers : t # s => saver'[t] = saver[t]
    BY <1>1, <2>1, SMT
  <2>4. /\ DOMAIN saver'[s].data = {"whole", "exact", "semantic", "at"}
        /\ saver'[s].data.whole = saver[s].data.whole /\ saver'[s].data.at = saver[s].data.at
        /\ saver'[s].data.exact = saver[s].data.exact /\ saver'[s].data.semantic = out
    BY <1>1, <2>1, SMT
  <2>5. SnapshotTypeOK(saver'[s].data) /\ IsFiniteSet(saver'[s].data.exact)
    BY <1>1, <2>2, <2>4 DEF SnapshotTypeOK
  <2>6. /\ Shape'
        /\ \A t \in Savers :
              /\ saver'[t].pc \in {"idle", "waiting", "exporting", "writing", "written"}
              /\ SnapshotTypeOK(saver'[t].data) /\ IsFiniteSet(saver'[t].data.exact)
    BY <2>3, <2>4, <2>5, MoveTyped
  <2> QED BY <1>2, <1>3, <2>1, <2>6, SaveTyped DEF history
<1>6. CASE Write(s)
  <2>1. /\ saver' = [saver EXCEPT ![s].pc = "written", ![s].data.whole = TRUE]
        /\ UNCHANGED <<caches, now, file, holder, life, boots, ticks, stored, history>>
    BY <1>6 DEF Write
  <2>2. /\ saver'[s].pc = "written" /\ DOMAIN saver' = Savers
        /\ DOMAIN saver'[s] = {"pc", "data"}
        /\ \A t \in Savers : t # s => saver'[t] = saver[t]
    BY <1>1, <2>1, SMT
  <2>3. /\ DOMAIN saver'[s].data = {"whole", "exact", "semantic", "at"}
        /\ saver'[s].data.whole = TRUE /\ saver'[s].data.at = saver[s].data.at
        /\ saver'[s].data.exact = saver[s].data.exact
        /\ saver'[s].data.semantic = saver[s].data.semantic
    BY <1>1, <2>1, SMT
  <2>4. SnapshotTypeOK(saver'[s].data) /\ IsFiniteSet(saver'[s].data.exact)
    BY <1>1, <2>3 DEF SnapshotTypeOK
  <2>5. /\ Shape'
        /\ \A t \in Savers :
              /\ saver'[t].pc \in {"idle", "waiting", "exporting", "writing", "written"}
              /\ SnapshotTypeOK(saver'[t].data) /\ IsFiniteSet(saver'[t].data.exact)
    BY <2>2, <2>3, <2>4, MoveTyped
  <2> QED BY <1>2, <1>3, <2>1, <2>5, SaveTyped DEF history
<1>7. CASE Rename(s) \/ SaveFails(s)
  <2>1. /\ saver' = [saver EXCEPT ![s] = Idle[s]] /\ holder' = None
        /\ UNCHANGED <<caches, now, boots, ticks, stored>>
        /\ life' = "draining" \/ life' = life
        /\ final' \in {"saved", "failed"} \/ final' = final
        /\ file' = file \/ file' = {saver[s].data}
    BY <1>7 DEF Rename, SaveFails, Return
  <2>2. /\ saver'[s].pc = "idle" /\ saver'[s].data = Blank /\ DOMAIN saver' = Savers
        /\ DOMAIN saver'[s] = {"pc", "data"}
        /\ \A t \in Savers : t # s => saver'[t] = saver[t]
    BY <1>1, <2>1, BlankFacts, SMT
  <2>3. /\ Shape'
        /\ \A t \in Savers :
              /\ saver'[t].pc \in {"idle", "waiting", "exporting", "writing", "written"}
              /\ SnapshotTypeOK(saver'[t].data) /\ IsFiniteSet(saver'[t].data.exact)
    BY <2>2, BlankFacts, MoveTyped
  <2>4. file' = file \/ \E f : file' = {f} /\ SnapshotTypeOK(f) /\ IsFiniteSet(f.exact)
    BY <1>1, <2>1
  <2>5. /\ life' \in {"serving", "stopping", "draining"} /\ (Up' => Up)
        /\ final' \in {"none", "saved", "failed"}
    BY <1>3, <2>1 DEF Up
  <2> QED BY <1>2, <1>3, <2>1, <2>3, <2>4, <2>5, SaveTyped
<1> QED BY <1>4, <1>5, <1>6, <1>7

(* Nothing is saved but while the process is up, by main after the signal  *)
(* and not before.                                                         *)
Lively ==
    /\ ~Up => saver = Idle
    /\ saver["main"].pc # "idle" <=> life = "stopping"

LEMMA BeginTyped ==
    ASSUME Typed, Begin, UNCHANGED <<now, file, ticks, stored>>,
           exact' \subseteq ExactEntry, IsFiniteSet(exact'), Cardinality(exact') <= capacity',
           semantic' \in Seq(Entry), Len(semantic') <= capacity'
    PROVE  Typed'
<1>1. /\ boots < Len(Configured) /\ boots' = boots + 1 /\ life' = "serving"
      /\ capacity' = Configured[boots + 1] /\ writers' = {} /\ purging' = FALSE
      /\ saver' = Idle /\ holder' = None /\ final' = "none"
  BY DEF Begin
<1>2. boots \in 0 .. Len(Configured) /\ Len(Configured) \in Nat
  BY SnapshotAssumption, LenProperties DEF Typed, TypeOK
<1>3. boots + 1 \in 1 .. Len(Configured)
  BY <1>1, <1>2
<1>4. capacity' \in Nat \ {0}
  BY <1>1, <1>3, SnapshotAssumption, ElementOfSeq
<1>5. boots' \in 0 .. Len(Configured)
  BY <1>1, <1>2, <1>3
<1>6. Shape'
  BY <1>1, BlankFacts DEF Shape
<1>7. Sized'
  BY <1>1, <1>4, BlankFacts DEF Sized, Typed
<1>8. \A s \in Savers : saver'[s].pc = "idle" /\ SnapshotTypeOK(saver'[s].data)
  BY <1>1, BlankFacts
<1> HIDE DEF Begin
<1> QED BY <1>1, <1>4, <1>5, <1>6, <1>7, <1>8 DEF Typed, TypeOK, SnapshotTypeOK, Entry

(* What a process restores is typed, and of the exact cache as much as     *)
(* there is room for.                                                      *)
LEMMA RestoreFacts ==
    ASSUME Typed, Restore, NEW f \in file
    PROVE  /\ exact' \subseteq f.exact /\ IsFiniteSet(exact')
           /\ Cardinality(exact') <= capacity' /\ capacity' \in Nat
           /\ \A e \in f.exact : Lives(e) => e \in exact' \/ Cardinality(exact') = capacity'
           /\ semantic' \in Seq(Entry) /\ Len(semantic') <= capacity'
           /\ ToSet(semantic') \subseteq ToSet(f.semantic)
           /\ f.semantic \in Seq(Entry)
           /\ semantic' = SemanticCache!ImportEntries(f.semantic, capacity')
<1>1. PICK g \in file : /\ exact' \in SomeOf({e \in g.exact : Lives(e)}, capacity')
                        /\ semantic' = SemanticCache!ImportEntries(g.semantic, capacity')
  BY DEF Restore
<1>2. g = f
  BY DEF Typed, Sized
<1>3. SnapshotTypeOK(f) /\ IsFiniteSet(f.exact)
  BY DEF Typed, Sized, TypeOK
<1>4. boots + 1 \in 1 .. Len(Configured) /\ capacity' = Configured[boots + 1]
  <2>1. boots \in 0 .. Len(Configured) /\ Len(Configured) \in Nat
    BY SnapshotAssumption, LenProperties DEF Typed, TypeOK
  <2> QED BY <2>1 DEF Restore, Begin
<1>5. capacity' \in Nat
  BY <1>4, SnapshotAssumption, ElementOfSeq
<1> DEFINE S == {e \in f.exact : Lives(e)}
<1>6. S \subseteq f.exact /\ IsFiniteSet(S) /\ Cardinality(S) \in Nat
  BY <1>3, FS_Subset, FS_CardinalityType
<1>7. exact' \in SomeOf(S, capacity')
  BY <1>1, <1>2
<1>8. semantic' = SemanticCache!ImportEntries(f.semantic, capacity')
  BY <1>1, <1>2
<1>9. f.semantic \in Seq(Entry)
  BY <1>3 DEF SnapshotTypeOK, Entry
<1> HIDE DEF S
<1>10. /\ exact' \subseteq S /\ IsFiniteSet(exact') /\ Cardinality(exact') <= capacity'
       /\ Cardinality(exact') = IF Cardinality(S) <= capacity' THEN Cardinality(S) ELSE capacity'
  BY <1>5, <1>6, <1>7, SomeFacts
<1>11. /\ semantic' \in Seq(Entry) /\ Len(semantic') <= capacity'
       /\ ToSet(semantic') \subseteq ToSet(f.semantic)
  BY <1>5, <1>8, <1>9, ImportSet
<1>12. exact' \subseteq f.exact
  BY <1>6, <1>10
<1>13. \A e \in S : e \in exact' \/ Cardinality(exact') = capacity'
  <2> SUFFICES ASSUME NEW e \in S, e \notin exact' PROVE Cardinality(exact') = capacity'
    OBVIOUS
  <2>1. exact' # S
    OBVIOUS
  <2>2. Cardinality(exact') # Cardinality(S)
    BY <1>6, <1>10, <2>1, FS_Subset
  <2> QED BY <1>10, <2>2
<1> QED BY <1>5, <1>8, <1>9, <1>10, <1>11, <1>12, <1>13 DEF S

LEMMA LifeSteps ==
    ASSUME Typed, Lively, Tick \/ Restore \/ StartEmpty \/ Stop \/ Exit \/ Crash \/ Pass
    PROVE  Typed'
<1>1. CASE Tick \/ Stop
  <2>1. PICK s \in Savers : Saving(s, "idle", "waiting")
    BY <1>1 DEF Tick, Stop, Savers
  <2>2. /\ DOMAIN saver = Savers /\ DOMAIN saver[s] = {"pc", "data"}
        /\ DOMAIN saver[s].data = {"whole", "exact", "semantic", "at"}
        /\ SnapshotTypeOK(saver[s].data) /\ IsFiniteSet(saver[s].data.exact)
    BY TypedFacts
  <2>3. /\ saver'[s].pc = "waiting" /\ saver'[s].data = saver[s].data /\ DOMAIN saver' = Savers
        /\ DOMAIN saver'[s] = {"pc", "data"}
        /\ \A t \in Savers : t # s => saver'[t] = saver[t]
    BY <2>1, <2>2, SMT DEF Saving
  <2>4. /\ Shape'
        /\ \A t \in Savers :
              /\ saver'[t].pc \in {"idle", "waiting", "exporting", "writing", "written"}
              /\ SnapshotTypeOK(saver'[t].data) /\ IsFiniteSet(saver'[t].data.exact)
    BY <2>2, <2>3, MoveTyped
  <2>5. /\ UNCHANGED <<caches, now, boots, stored, holder, file, final>>
        /\ ticks' \in 0 .. MaxTicks
    BY <1>1, TypedFacts DEF Tick, Stop, history
  <2>6. /\ life \in {"serving", "stopping", "draining"}
        /\ life' \in {"serving", "stopping", "draining"}
    BY <1>1 DEF Tick, Stop, Up
  <2>7. life # "down" /\ (Up' => Up)
    BY <2>6 DEF Up
  <2> QED BY <2>4, <2>5, <2>6, <2>7, TypedFacts, SaveTyped
<1>2. CASE Restore
  <2>1. PICK f \in file : TRUE
    BY <1>2 DEF Restore
  <2>2. f.exact \subseteq ExactEntry
    BY DEF Typed, TypeOK, SnapshotTypeOK
  <2>3. Begin /\ UNCHANGED <<now, file, ticks, stored>>
    BY <1>2 DEF Restore
  <2>4. /\ exact' \subseteq f.exact /\ IsFiniteSet(exact') /\ Cardinality(exact') <= capacity'
        /\ semantic' \in Seq(Entry) /\ Len(semantic') <= capacity'
    BY <1>2, RestoreFacts
  <2> QED BY <2>2, <2>3, <2>4, BeginTyped
<1>3. CASE StartEmpty
  <2>1. boots + 1 \in 1 .. Len(Configured) /\ capacity' = Configured[boots + 1]
    <3>1. boots \in 0 .. Len(Configured) /\ Len(Configured) \in Nat
      BY SnapshotAssumption, LenProperties DEF Typed, TypeOK
    <3> QED BY <1>3, <3>1 DEF StartEmpty, Begin
  <2>2. capacity' \in Nat
    BY <2>1, SnapshotAssumption, ElementOfSeq
  <2>3. Begin /\ UNCHANGED <<now, file, ticks, stored>> /\ exact' = {} /\ semantic' = <<>>
    BY <1>3 DEF StartEmpty
  <2>4. <<>> \in Seq(Entry) /\ Len(<<>>) = 0
    OBVIOUS
  <2> QED BY <2>2, <2>3, <2>4, BeginTyped, FS_EmptySet
<1>4. CASE Exit
  <2>1. /\ life = "draining" /\ life' = "exited" /\ saver' = Idle /\ holder' = None
        /\ UNCHANGED <<caches, now, file, boots, ticks, stored, final>>
    BY <1>4 DEF Exit, history
  <2>2. Shape' /\ \A t \in Savers :
              /\ saver'[t].pc = "idle"
              /\ SnapshotTypeOK(saver'[t].data) /\ IsFiniteSet(saver'[t].data.exact)
    BY <2>1, BlankFacts DEF Shape
  <2>3. ~Up'
    BY <2>1 DEF Up
  <2> QED BY <2>1, <2>2, <2>3, TypedFacts, SaveTyped
<1>5. CASE Crash
  <2>1. /\ life' = "down" /\ exact' = {} /\ semantic' = <<>> /\ writers' = {}
        /\ purging' = FALSE /\ saver' = Idle /\ holder' = None /\ final' = "none"
        /\ UNCHANGED <<capacity, now, file, boots, ticks, stored>>
    BY <1>5 DEF Crash
  <2>2. Shape' /\ \A t \in Savers :
              /\ saver'[t].pc = "idle"
              /\ SnapshotTypeOK(saver'[t].data) /\ IsFiniteSet(saver'[t].data.exact)
    BY <2>1, BlankFacts DEF Shape
  <2>3. Sized'
    BY <2>1, <2>2, FS_EmptySet DEF Typed, Sized, Up
  <2>4. /\ exact' \subseteq ExactEntry /\ semantic' \in Seq(Entry)
        /\ Cardinality(exact') = 0 /\ Len(semantic') = 0
    BY <2>1, FS_EmptySet
  <2>5. \A f \in file : SnapshotTypeOK(f)'
    BY DEF Typed, TypeOK, SnapshotTypeOK
  <2>6. \A s \in Savers : SnapshotTypeOK(saver[s].data)'
    BY <2>2
  <2>7. /\ capacity \in Nat /\ now \in 0 .. MaxTime /\ boots \in 0 .. Len(Configured)
        /\ ticks \in 0 .. MaxTicks /\ stored \in Nat /\ Cardinality(file) <= 1
    BY DEF Typed, TypeOK
  <2>8. Cardinality(exact') <= capacity' /\ Len(semantic') <= capacity'
    BY <2>1, <2>4, <2>7
  <2>9. Cardinality(file') <= 1 /\ \A f \in file' : SnapshotTypeOK(f)'
    BY <2>1, <2>5, <2>7
  <2>10. \A s \in Savers :
           saver'[s].pc \in {"idle", "waiting", "exporting", "writing", "written"}
    BY <2>2
  <2> HIDE DEF Typed
  <2>11. TypeOK'
    BY <2>1, <2>4, <2>6, <2>7, <2>8, <2>9, <2>10 DEF TypeOK, Entry
  <2> QED BY <2>2, <2>3, <2>11 DEF Typed
<1>6. CASE Pass
  <2>1. now' = now + 1 /\ now < MaxTime /\ UNCHANGED <<caches, process, stored, history>>
    BY <1>6 DEF Pass
  <2>2. now' \in 0 .. MaxTime
    BY <2>1, SnapshotAssumption DEF Typed, TypeOK
  <2>3. Shape' /\ Sized'
    BY <2>1 DEF Typed, Shape, Sized, Up, process, caches
  <2>4. TypeOK'
    BY <2>1, <2>2 DEF Typed, TypeOK, SnapshotTypeOK, process, caches, history
  <2> QED BY <2>3, <2>4 DEF Typed
<1> QED BY <1>1, <1>2, <1>3, <1>4, <1>5, <1>6

LEMMA InitTyped == Init => Typed /\ Lively
<1> SUFFICES ASSUME Init PROVE Typed /\ Lively
  OBVIOUS
<1>1. /\ capacity = 0 /\ exact = {} /\ semantic = <<>> /\ writers = {} /\ purging = FALSE
      /\ now = 0 /\ file = {} /\ saver = Idle /\ holder = None /\ life = "down"
      /\ boots = 0 /\ ticks = 0 /\ stored = 0 /\ final = "none"
  BY DEF Init
<1>2. Len(Configured) \in Nat /\ MaxTime \in Nat /\ MaxTicks \in Nat
  BY SnapshotAssumption, LenProperties
<1>3. Shape /\ \A s \in Savers : saver[s].pc = "idle" /\ SnapshotTypeOK(saver[s].data)
  BY <1>1, BlankFacts DEF Shape
<1>4. Sized
  BY <1>1, BlankFacts, FS_EmptySet DEF Sized, Up
<1>5. /\ Cardinality(exact) <= capacity /\ Cardinality(file) <= 1 /\ Len(semantic) <= capacity
      /\ semantic \in Seq(SemanticCache!Entry)
  BY <1>1, FS_EmptySet
<1>6. /\ capacity \in Nat /\ exact \subseteq ExactEntry /\ writers \subseteq Answers
      /\ now \in 0 .. MaxTime /\ boots \in 0 .. Len(Configured) /\ ticks \in 0 .. MaxTicks
      /\ stored \in Nat /\ \A f \in file : SnapshotTypeOK(f)
      /\ holder \in Savers \cup {None} /\ final \in {"none", "saved", "failed"}
      /\ life \in {"down", "serving", "stopping", "draining", "exited"}
  BY <1>1, <1>2
<1>7. TypeOK
  <2>1. purging \in BOOLEAN
    BY <1>1, Zenon
  <2> QED BY <1>3, <1>5, <1>6, <2>1 DEF TypeOK
<1>8. Lively
  BY <1>1, BlankFacts DEF Lively, Savers
<1> QED BY <1>3, <1>4, <1>7, <1>8 DEF Typed

(* What the steps of SaveSnapshot do, for the arguments that only ask how  *)
(* far a call is, what it has of the caches, and what comes of it.         *)
LEMMA SaveMoves ==
    ASSUME Typed, NEW s \in Savers,
           Lock(s) \/ ExportSemantic(s) \/ Write(s) \/ Rename(s) \/ SaveFails(s)
    PROVE  /\ \A t \in Savers : t # s => saver'[t] = saver[t]
           /\ UNCHANGED <<caches, now, boots, ticks, stored, late, flushed>>
           /\ \/ /\ saver[s].pc = "waiting" /\ saver'[s].pc = "exporting"
                 /\ saver'[s].data.exact = ExactExport /\ saver'[s].data.semantic = <<>>
                 /\ UNCHANGED <<file, life, final>>
              \/ /\ saver[s].pc = "exporting" /\ saver'[s].pc = "writing"
                 /\ saver'[s].data.exact = saver[s].data.exact
                 /\ ToSet(saver'[s].data.semantic) = {e \in ToSet(semantic) : Lives(e)}
                 /\ UNCHANGED <<file, life, final>>
              \/ /\ saver[s].pc = "writing" /\ saver'[s].pc = "written"
                 /\ saver'[s].data.exact = saver[s].data.exact
                 /\ saver'[s].data.semantic = saver[s].data.semantic
                 /\ UNCHANGED <<file, life, final>>
              \/ /\ saver[s].pc \in {"writing", "written"} /\ saver'[s].pc = "idle"
                 /\ saver'[s].data = Blank
                 /\ \/ file' = file /\ (final' = "failed" \/ s # "main")
                    \/ file' = {saver[s].data} /\ saver[s].pc = "written"
                 /\ IF s = "main" THEN life' = "draining" ELSE UNCHANGED <<life, final>>
<1>1. /\ DOMAIN saver[s].data = {"whole", "exact", "semantic", "at"}
      /\ DOMAIN saver = Savers /\ DOMAIN saver[s] = {"pc", "data"} /\ semantic \in Seq(Entry)
  BY TypedFacts
<1>2. CASE Lock(s)
  <2> DEFINE data == Snapshot(FALSE, ExactExport, <<>>, now)
  <2>1. data.exact = ExactExport /\ data.semantic = <<>>
    BY DEF Snapshot
  <2>2. /\ saver' = [saver EXCEPT ![s] = [pc |-> "exporting", data |-> data]]
        /\ UNCHANGED <<caches, now, file, life, boots, ticks, stored, history>>
        /\ saver[s].pc = "waiting"
    BY <1>2 DEF Lock
  <2> HIDE DEF data
  <2>3. /\ saver'[s].pc = "exporting" /\ saver'[s].data = data
        /\ \A t \in Savers : t # s => saver'[t] = saver[t]
    BY <1>1, <2>2, SMT
  <2> QED BY <2>1, <2>2, <2>3 DEF history
<1>3. CASE ExportSemantic(s)
  <2> DEFINE out == SemanticCache!ExportEntries(semantic)
  <2>1. /\ saver' = [saver EXCEPT ![s].pc = "writing", ![s].data.semantic = out]
        /\ UNCHANGED <<caches, now, file, life, boots, ticks, stored, history>>
        /\ saver[s].pc = "exporting"
    BY <1>3 DEF ExportSemantic
  <2>2. ToSet(out) = {e \in ToSet(semantic) : Lives(e)}
    BY <1>1, ExportSet
  <2> HIDE DEF out
  <2>3. /\ saver'[s].pc = "writing" /\ \A t \in Savers : t # s => saver'[t] = saver[t]
    BY <1>1, <2>1, SMT
  <2>4. saver'[s].data.exact = saver[s].data.exact /\ saver'[s].data.semantic = out
    BY <1>1, <2>1, SMT
  <2> QED BY <2>1, <2>2, <2>3, <2>4 DEF history
<1>4. CASE Write(s)
  <2>1. /\ saver' = [saver EXCEPT ![s].pc = "written", ![s].data.whole = TRUE]
        /\ UNCHANGED <<caches, now, file, life, boots, ticks, stored, history>>
        /\ saver[s].pc = "writing"
    BY <1>4 DEF Write
  <2>2. /\ saver'[s].pc = "written" /\ \A t \in Savers : t # s => saver'[t] = saver[t]
    BY <1>1, <2>1, SMT
  <2>3. /\ saver'[s].data.exact = saver[s].data.exact
        /\ saver'[s].data.semantic = saver[s].data.semantic
    BY <1>1, <2>1, SMT
  <2> QED BY <2>1, <2>2, <2>3 DEF history
<1>5. CASE Rename(s) \/ SaveFails(s)
  <2>1. /\ saver' = [saver EXCEPT ![s] = Idle[s]]
        /\ UNCHANGED <<caches, now, boots, ticks, stored, late, flushed>>
        /\ \/ file' = file /\ (final' = "failed" \/ s # "main")
           \/ file' = {saver[s].data} /\ saver[s].pc = "written"
        /\ IF s = "main" THEN life' = "draining" ELSE UNCHANGED <<life, final>>
        /\ saver[s].pc \in {"writing", "written"}
    BY <1>5 DEF Rename, SaveFails, Return
  <2>2. /\ saver'[s].pc = "idle" /\ saver'[s].data = Blank
        /\ \A t \in Savers : t # s => saver'[t] = saver[t]
    BY <1>1, <2>1, BlankFacts, SMT
  <2> QED BY <2>1, <2>2
<1> QED BY <1>2, <1>3, <1>4, <1>5

LEMMA SaveUp ==
    ASSUME Lively, NEW s \in Savers,
           Lock(s) \/ ExportSemantic(s) \/ Write(s) \/ Rename(s) \/ SaveFails(s)
    PROVE  Up
<1>1. saver[s].pc # "idle"
  BY DEF Lock, ExportSemantic, Write, Rename, SaveFails
<1> QED BY <1>1, BlankFacts DEF Lively

LEMMA LivelyStep ==
    ASSUME Typed, Lively, [Next]_vars
    PROVE  Lively'
<1>1. "main" \in Savers /\ "timer" \in Savers
  BY DEF Savers
<1>2. CASE UNCHANGED <<saver, life>>
  BY <1>2 DEF Lively, Up
<1>3. ASSUME NEW s \in Savers,
             Lock(s) \/ ExportSemantic(s) \/ Write(s) \/ Rename(s) \/ SaveFails(s)
      PROVE  Lively'
  <2>1. Up
    BY <1>3, SaveUp
  <2>2. /\ \A t \in Savers : t # s => saver'[t] = saver[t]
        /\ \/ saver[s].pc # "idle" /\ saver'[s].pc # "idle" /\ UNCHANGED life
           \/ /\ saver'[s].pc = "idle"
              /\ IF s = "main" THEN life' = "draining" ELSE UNCHANGED life
    BY <1>3, SaveMoves
  <2>3. Up'
    BY <2>1, <2>2 DEF Up
  <2>4. CASE s = "main"
    BY <2>2, <2>3, <2>4 DEF Lively
  <2>5. CASE s # "main"
    BY <1>1, <2>2, <2>3, <2>5 DEF Lively
  <2> QED BY <2>4, <2>5
<1>4. CASE Tick \/ Stop
  <2>1. DOMAIN saver = Savers /\ \A s \in Savers : DOMAIN saver[s] = {"pc", "data"}
    BY TypedFacts
  <2>2. CASE Tick
    <3>1. saver'["main"] = saver["main"] /\ UNCHANGED life /\ Up
      BY <1>1, <2>1, <2>2, SMT DEF Tick, Saving
    <3> QED BY <3>1 DEF Lively, Up
  <2>3. CASE Stop
    <3>1. saver'["main"].pc = "waiting" /\ life' = "stopping"
      BY <1>1, <2>1, <2>3, SMT DEF Stop, Saving
    <3> QED BY <3>1 DEF Lively, Up
  <2> QED BY <1>4, <2>2, <2>3
<1>5. CASE Restore \/ StartEmpty \/ Exit \/ Crash
  <2>1. saver' = Idle /\ life' \in {"serving", "exited", "down"}
    BY <1>5 DEF Restore, StartEmpty, Exit, Crash, Begin
  <2> QED BY <1>1, <2>1, BlankFacts DEF Lively
<1>6. CASE \/ \E e \in exact : ExactGet(e)
           \/ \E a \in Answers : Store(a)
           \/ \E a \in writers : WriteSemantic(a)
           \/ PurgeExact \/ PurgeSemantic \/ Pass
  BY <1>2, <1>6 DEF ExactGet, Store, WriteSemantic, PurgeExact, PurgeSemantic, Pass, process
<1> QED BY <1>2, <1>3, <1>4, <1>5, <1>6 DEF Next, vars, process

LEMMA TypedStep ==
    ASSUME Typed, Lively, [Next]_vars
    PROVE  Typed'
<1>1. ASSUME NEW s \in Savers,
             Lock(s) \/ ExportSemantic(s) \/ Write(s) \/ Rename(s) \/ SaveFails(s)
      PROVE  Typed'
  BY <1>1, SaveUp, SaveSteps DEF Up
<1>2. CASE UNCHANGED vars
  BY <1>2 DEF vars, caches, process, history, Typed, TypeOK, SnapshotTypeOK, Shape, Sized, Up
<1> QED BY <1>1, <1>2, CacheSteps, LifeSteps DEF Next

LEMMA TypedHolds == Spec => [](Typed /\ Lively)
BY InitTyped, TypedStep, LivelyStep, PTL DEF Spec

(* The caches are never fuller than the configured capacity, whatever was  *)
(* restored, and every variable has its type; nothing is saved by a        *)
(* process that is not up.                                                 *)
THEOREM TypeCorrect == Spec => []TypeOK
<1>1. Typed => TypeOK
  BY DEF Typed
<1> QED BY <1>1, TypedHolds, PTL

-----------------------------------------------------------------------------
(* What a graceful stop leaves in the file.                                *)

(* An answer has its number from the first save of it on.                  *)
Numbered ==
    /\ \A e \in exact : e.answer \in 1 .. stored
    /\ \A e \in ToSet(semantic) : e.answer \in 1 .. stored
    /\ \A a \in writers : a \in 1 .. stored
    /\ \A f \in file : /\ \A e \in f.exact : e.answer \in 1 .. stored
                       /\ \A e \in ToSet(f.semantic) : e.answer \in 1 .. stored
    /\ \A s \in Savers : /\ \A e \in saver[s].data.exact : e.answer \in 1 .. stored
                         /\ \A e \in ToSet(saver[s].data.semantic) : e.answer \in 1 .. stored
    /\ \A a \in flushed.exact \cup flushed.semantic : a \in 1 .. stored

(* What was purged does not come back: each answer is stored once, and a   *)
(* goroutine that still has one to write has not written it before.        *)
Purged ==
    /\ DOMAIN late = {"exact", "semantic"} /\ DOMAIN flushed = {"exact", "semantic"}
    /\ \A e \in exact : e.answer \notin flushed.exact
    /\ \A e \in ToSet(semantic) : e.answer \notin flushed.semantic /\ e.answer \notin writers
    /\ \A a \in writers : a \notin flushed.semantic

(* What a snapshot has of a cache is what a save after the signal may      *)
(* write: all that is left of what was cached at the signal, and nothing   *)
(* of what was purged before.                                              *)
ExactWell(d) ==
    /\ \A e \in exact : Lives(e) /\ e.answer \notin late.exact => e \in d.exact
    /\ \A e \in d.exact : e.answer \notin flushed.exact
SemanticWell(d) ==
    /\ \A e \in ToSet(semantic) :
          Lives(e) /\ e.answer \notin late.semantic => e \in ToSet(d.semantic)
    /\ \A e \in ToSet(d.semantic) : e.answer \notin flushed.semantic

(* The saves that can still write the file when main has written it.       *)
LastSave(s) == (s = "main" \/ life = "draining") /\ saver[s].pc \in Active

AfterSignal ==
    /\ \A s \in Savers : LastSave(s) =>
          /\ ExactWell(saver[s].data)
          /\ saver[s].pc # "exporting" => SemanticWell(saver[s].data)
    /\ final = "saved" /\ life \in {"draining", "exited"} =>
          file # {} /\ \A f \in file : ExactWell(f) /\ SemanticWell(f)

(* What the steps of requests and of the administrator do to the caches    *)
(* and to the history.                                                     *)
Drops ==
    /\ exact' \subseteq exact
    /\ UNCHANGED <<semantic, writers, stored, late, flushed>>

Stores(a) ==
    /\ a = stored + 1 /\ stored' = a
    /\ \A e \in exact' : e \in exact \/ e.answer = a
    /\ writers' = writers \cup {a}
    /\ late'["exact"] = IF life = "serving" THEN late["exact"] ELSE late["exact"] \cup {a}
    /\ late'["semantic"] = late["semantic"]
    /\ UNCHANGED <<semantic, flushed>>

WritesSemantic(a) ==
    /\ a \in writers /\ writers' = writers \ {a}
    /\ \A e \in ToSet(semantic') : e \in ToSet(semantic) \/ e.answer = a
    /\ late'["semantic"] = IF life = "serving" THEN late["semantic"]
                           ELSE late["semantic"] \cup {a}
    /\ late'["exact"] = late["exact"]
    /\ UNCHANGED <<exact, stored, flushed>>

PurgesExact ==
    /\ exact' = {}
    /\ flushed'["exact"] = IF life # "serving" THEN flushed["exact"]
                           ELSE flushed["exact"] \cup AnswersIn(exact)
    /\ flushed'["semantic"] = flushed["semantic"]
    /\ UNCHANGED <<semantic, writers, stored, late>>

PurgesSemantic ==
    /\ ToSet(semantic') = {}
    /\ flushed'["semantic"] = IF life # "serving" THEN flushed["semantic"]
                              ELSE flushed["semantic"] \cup AnswersIn(ToSet(semantic))
    /\ flushed'["exact"] = flushed["exact"]
    /\ UNCHANGED <<exact, writers, stored, late>>

LEMMA CacheMoves ==
    ASSUME Typed, Purged,
           \/ \E e \in exact : ExactGet(e)
           \/ \E a \in Answers : Store(a)
           \/ \E a \in writers : WriteSemantic(a)
           \/ PurgeExact \/ PurgeSemantic
    PROVE  /\ UNCHANGED <<file, saver, life, now, final, holder>> /\ Up
           /\ DOMAIN late' = {"exact", "semantic"} /\ DOMAIN flushed' = {"exact", "semantic"}
           /\ life # "serving" => UNCHANGED flushed
           /\ \/ Drops
              \/ \E a \in Answers : Stores(a) \/ WritesSemantic(a)
              \/ PurgesExact \/ PurgesSemantic
<1>1. /\ DOMAIN late = {"exact", "semantic"} /\ DOMAIN flushed = {"exact", "semantic"}
      /\ semantic \in Seq(Entry) /\ Len(semantic) <= capacity /\ writers \subseteq Answers
      /\ capacity \in Nat /\ now \in Nat /\ (Up => capacity # 0)
  BY SnapshotAssumption DEF Typed, TypeOK, Sized, Entry, Purged
<1>2. CASE \E e \in exact : ExactGet(e)
  BY <1>1, <1>2 DEF ExactGet, Drops, process, history
<1>3. ASSUME NEW a \in Answers, Store(a) PROVE Stores(a)
                   /\ DOMAIN late' = {"exact", "semantic"} /\ UNCHANGED flushed
                   /\ UNCHANGED <<file, saver, life, now, final, holder>> /\ Up
  <2> DEFINE others == {e \in exact : Asked[e.answer] # Asked[a]}
             new    == [answer |-> a, expiresAt |-> now + ExactTTL]
  <2>1. PICK kept \in SomeOf(others, capacity - 1) : exact' = kept \cup {new}
    BY <1>3 DEF Store
  <2>2. kept \subseteq exact /\ new.answer = a
    BY DEF SomeOf, kSubset
  <2> HIDE DEF others, new
  <2>3. \A e \in exact' : e \in exact \/ e.answer = a
    BY <2>1, <2>2
  <2>4. late' = IF life = "serving" THEN late
                ELSE [late EXCEPT !["exact"] = late["exact"] \cup {a}]
    BY <1>3 DEF Store, Note
  <2>5. /\ DOMAIN late' = {"exact", "semantic"} /\ late'["semantic"] = late["semantic"]
        /\ late'["exact"] = IF life = "serving" THEN late["exact"] ELSE late["exact"] \cup {a}
    BY <1>1, <2>4, SMT
  <2>6. /\ a = stored + 1 /\ stored' = a /\ writers' = writers \cup {a} /\ Up
        /\ UNCHANGED <<semantic, flushed, file, saver, life, now, final, holder>>
    BY <1>3 DEF Store, process
  <2> QED BY <2>3, <2>5, <2>6 DEF Stores
<1>4. ASSUME NEW a \in writers, WriteSemantic(a) PROVE WritesSemantic(a) /\ a \in Answers
                   /\ DOMAIN late' = {"exact", "semantic"} /\ UNCHANGED flushed
                   /\ UNCHANGED <<file, saver, life, now, final, holder>> /\ Up
  <2>1. /\ Up /\ writers' = writers \ {a}
        /\ semantic' = SemanticCache!Added(semantic, Asked[a], Asked[a], a)
        /\ UNCHANGED <<capacity, exact, stored, flushed, file, saver, life, now, final, holder>>
    BY <1>4 DEF WriteSemantic, process
  <2>2. a \in Answers /\ capacity \in Nat \ {0}
    BY <1>1, <2>1
  <2>3. \A e \in ToSet(semantic') : e \in ToSet(semantic) \/ e.answer = a
    BY <1>1, <2>1, <2>2, AddedSet
  <2>4. late' = IF life = "serving" THEN late
                ELSE [late EXCEPT !["semantic"] = late["semantic"] \cup {a}]
    BY <1>4 DEF WriteSemantic, Note
  <2>5. /\ DOMAIN late' = {"exact", "semantic"} /\ late'["exact"] = late["exact"]
        /\ late'["semantic"] = IF life = "serving" THEN late["semantic"]
                               ELSE late["semantic"] \cup {a}
    BY <1>1, <2>4, SMT
  <2> QED BY <2>1, <2>2, <2>3, <2>5 DEF WritesSemantic
<1>5. ASSUME PurgeExact PROVE PurgesExact
                   /\ DOMAIN flushed' = {"exact", "semantic"} /\ UNCHANGED late
                   /\ (life # "serving" => UNCHANGED flushed)
                   /\ UNCHANGED <<file, saver, life, now, final, holder>> /\ Up
  <2> DEFINE purged == AnswersIn(exact)
  <2>1. flushed' = IF life # "serving" THEN flushed
                   ELSE [flushed EXCEPT !["exact"] = flushed["exact"] \cup purged]
    BY <1>5 DEF PurgeExact, Flush
  <2> HIDE DEF purged
  <2>2. /\ DOMAIN flushed' = {"exact", "semantic"}
        /\ flushed'["semantic"] = flushed["semantic"]
        /\ flushed'["exact"] = IF life # "serving" THEN flushed["exact"]
                               ELSE flushed["exact"] \cup purged
    BY <1>1, <2>1, SMT
  <2>3. /\ exact' = {} /\ Up
        /\ UNCHANGED <<semantic, writers, stored, late, file, saver, life, now, final, holder>>
    BY <1>5 DEF PurgeExact, process
  <2> QED BY <2>1, <2>2, <2>3 DEF PurgesExact, purged
<1>6. ASSUME PurgeSemantic PROVE PurgesSemantic
                   /\ DOMAIN flushed' = {"exact", "semantic"} /\ UNCHANGED late
                   /\ (life # "serving" => UNCHANGED flushed)
                   /\ UNCHANGED <<file, saver, life, now, final, holder>> /\ Up
  <2> DEFINE purged == AnswersIn(ToSet(semantic))
  <2>1. flushed' = IF life # "serving" THEN flushed
                   ELSE [flushed EXCEPT !["semantic"] = flushed["semantic"] \cup purged]
    BY <1>6 DEF PurgeSemantic, Flush
  <2> HIDE DEF purged
  <2>2. /\ DOMAIN flushed' = {"exact", "semantic"}
        /\ flushed'["exact"] = flushed["exact"]
        /\ flushed'["semantic"] = IF life # "serving" THEN flushed["semantic"]
                                  ELSE flushed["semantic"] \cup purged
    BY <1>1, <2>1, SMT
  <2>3. /\ semantic' = <<>> /\ Up
        /\ UNCHANGED <<exact, writers, stored, late, file, saver, life, now, final, holder>>
    BY <1>6 DEF PurgeSemantic, process
  <2>4. ToSet(<<>>) = {}
    BY DEF ToSet
  <2> QED BY <2>1, <2>2, <2>3, <2>4 DEF PurgesSemantic, purged
<1> QED BY <1>1, <1>2, <1>3, <1>4, <1>5, <1>6 DEF ExactGet, Drops, process, history

LEMMA BlankData ==
  \A s \in Savers : /\ Idle[s].pc = "idle" /\ Idle[s].data.exact = {}
                    /\ ToSet(Idle[s].data.semantic) = {}
<1>1. Blank.exact = {} /\ Blank.semantic = <<>>
  BY DEF Blank, Snapshot
<1>2. ToSet(<<>>) = {}
  BY DEF ToSet
<1> HIDE DEF Blank
<1> QED BY <1>1, <1>2 DEF Idle

LEMMA NothingPast ==
  DOMAIN Nothing = {"exact", "semantic"} /\ Nothing["exact"] = {} /\ Nothing["semantic"] = {}
BY DEF Nothing

Histories == Numbered /\ Purged

LEMMA InitHistories == Init => Histories /\ AfterSignal
<1> SUFFICES ASSUME Init PROVE Histories /\ AfterSignal
  OBVIOUS
<1>1. /\ exact = {} /\ semantic = <<>> /\ writers = {} /\ file = {} /\ saver = Idle
      /\ life = "down" /\ final = "none" /\ late = Nothing /\ flushed = Nothing
  BY DEF Init
<1>2. ToSet(semantic) = {}
  BY <1>1 DEF ToSet
<1>3. Numbered
  BY <1>1, <1>2, BlankData, NothingPast DEF Numbered
<1>4. Purged
  BY <1>1, <1>2, NothingPast DEF Purged
<1>5. AfterSignal
  BY <1>1, BlankData DEF AfterSignal, LastSave, Active
<1> QED BY <1>3, <1>4, <1>5 DEF Histories

LEMMA CacheHistories ==
    ASSUME Typed, Histories,
           \/ \E e \in exact : ExactGet(e)
           \/ \E a \in Answers : Store(a)
           \/ \E a \in writers : WriteSemantic(a)
           \/ PurgeExact \/ PurgeSemantic
    PROVE  Histories'
<1> USE DEF Histories
<1>1. /\ UNCHANGED <<file, saver, life>>
      /\ DOMAIN late' = {"exact", "semantic"} /\ DOMAIN flushed' = {"exact", "semantic"}
      /\ \/ Drops
         \/ \E a \in Answers : Stores(a) \/ WritesSemantic(a)
         \/ PurgesExact \/ PurgesSemantic
  BY CacheMoves
<1>2. stored \in Nat
  BY DEF Typed, TypeOK
<1>3. CASE Drops
  BY <1>1, <1>3 DEF Drops, Numbered, Purged
<1>4. ASSUME NEW a \in Answers, Stores(a) PROVE Histories'
  <2>1. /\ a = stored + 1 /\ stored' = a
        /\ \A e \in exact' : e \in exact \/ e.answer = a
        /\ writers' = writers \cup {a} /\ UNCHANGED <<semantic, flushed>>
    BY <1>4 DEF Stores
  <2>2. /\ a \in 1 .. stored' /\ a \notin 1 .. stored
        /\ \A n : n \in 1 .. stored => n \in 1 .. stored'
    BY <1>2, <2>1
  <2>3. Numbered'
    BY <1>1, <2>1, <2>2 DEF Numbered
  <2>4. /\ \A e \in ToSet(semantic) : e.answer # a
        /\ a \notin flushed["exact"] /\ a \notin flushed["semantic"]
    BY <2>2 DEF Numbered
  <2>5. Purged'
    BY <1>1, <2>1, <2>4 DEF Purged
  <2> QED BY <2>3, <2>5
<1>5. ASSUME NEW a \in Answers, WritesSemantic(a) PROVE Histories'
  <2>1. /\ a \in writers /\ writers' = writers \ {a}
        /\ \A e \in ToSet(semantic') : e \in ToSet(semantic) \/ e.answer = a
        /\ UNCHANGED <<exact, stored, flushed>>
    BY <1>5 DEF WritesSemantic
  <2>2. Numbered'
    BY <1>1, <2>1 DEF Numbered
  <2>3. Purged'
    BY <1>1, <2>1 DEF Purged
  <2> QED BY <2>2, <2>3
<1>6. CASE PurgesExact
  <2>1. /\ exact' = {} /\ flushed'["semantic"] = flushed["semantic"]
        /\ \A a \in flushed'["exact"] : a \in flushed["exact"] \/ a \in AnswersIn(exact)
        /\ UNCHANGED <<semantic, writers, stored>>
    BY <1>6 DEF PurgesExact
  <2>2. Numbered'
    BY <1>1, <2>1 DEF Numbered, AnswersIn
  <2>3. Purged'
    BY <1>1, <2>1 DEF Purged
  <2> QED BY <2>2, <2>3
<1>7. CASE PurgesSemantic
  <2>1. /\ ToSet(semantic') = {} /\ flushed'["exact"] = flushed["exact"]
        /\ \A a \in flushed'["semantic"] :
              a \in flushed["semantic"] \/ \E e \in ToSet(semantic) : a = e.answer
        /\ UNCHANGED <<exact, writers, stored>>
    BY <1>7 DEF PurgesSemantic, AnswersIn
  <2>2. Numbered'
    BY <1>1, <2>1 DEF Numbered
  <2>3. Purged'
    BY <1>1, <2>1 DEF Purged
  <2> QED BY <2>2, <2>3
<1> QED BY <1>1, <1>3, <1>4, <1>5, <1>6, <1>7

LEMMA SaveHistories ==
    ASSUME Typed, Histories, NEW s \in Savers,
           Lock(s) \/ ExportSemantic(s) \/ Write(s) \/ Rename(s) \/ SaveFails(s)
    PROVE  Histories'
<1>1. /\ \A t \in Savers : t # s => saver'[t] = saver[t]
      /\ UNCHANGED <<exact, semantic, writers, stored, late, flushed>>
      /\ \A e \in saver'[s].data.exact : e \in saver[s].data.exact \/ e \in exact
      /\ \A e \in ToSet(saver'[s].data.semantic) :
            e \in ToSet(saver[s].data.semantic) \/ e \in ToSet(semantic)
      /\ file' = file \/ file' = {saver[s].data}
  <2>1. /\ Blank.exact = {} /\ ToSet(Blank.semantic) = {} /\ ToSet(<<>>) = {}
        /\ \A e \in ExactExport : e \in exact
    BY DEF Blank, Snapshot, ToSet, ExactExport
  <2> QED BY <2>1, SaveMoves DEF caches
<1>2. Numbered'
  BY <1>1 DEF Histories, Numbered
<1>3. Purged'
  BY <1>1 DEF Histories, Purged
<1> QED BY <1>2, <1>3 DEF Histories

LEMMA LifeHistories ==
    ASSUME Typed, Lively, Histories, Tick \/ Restore \/ StartEmpty \/ Stop \/ Exit \/ Crash \/ Pass
    PROVE  Histories'
<1>1. \A s \in Savers : /\ \A e \in saver'[s].data.exact : e \in saver[s].data.exact
                        /\ \A e \in ToSet(saver'[s].data.semantic) :
                              e \in ToSet(saver[s].data.semantic)
  <2>1. CASE Tick \/ Stop
    <3>1. PICK s \in Savers : Saving(s, "idle", "waiting")
      BY <2>1 DEF Tick, Stop, Savers
    <3>2. DOMAIN saver = Savers /\ \A t \in Savers : DOMAIN saver[t] = {"pc", "data"}
      BY TypedFacts
    <3>3. \A t \in Savers : saver'[t].data = saver[t].data
      BY <3>1, <3>2, SMT DEF Saving
    <3> QED BY <3>3
  <2>2. CASE Restore \/ StartEmpty \/ Exit \/ Crash
    <3>1. saver' = Idle
      BY <2>2 DEF Restore, StartEmpty, Exit, Crash, Begin
    <3> QED BY <3>1, BlankData
  <2>3. CASE Pass
    BY <2>3 DEF Pass, process
  <2> QED BY <2>1, <2>2, <2>3
<1>2. UNCHANGED <<file, stored>>
  BY DEF Tick, Restore, StartEmpty, Stop, Exit, Crash, Pass, process
<1>3. CASE Tick \/ Stop \/ Exit \/ Pass
  <2>1. UNCHANGED <<exact, semantic, writers, late, flushed>>
    BY <1>3 DEF Tick, Stop, Exit, Pass, caches, history
  <2>2. Numbered'
    BY <1>1, <1>2, <2>1 DEF Histories, Numbered
  <2>3. Purged'
    BY <2>1 DEF Histories, Purged
  <2> QED BY <2>2, <2>3 DEF Histories
<1>4. CASE Restore \/ StartEmpty \/ Crash
  <2>1. /\ \A e \in exact' : \E f \in file : e \in f.exact
        /\ \A e \in ToSet(semantic') : \E f \in file : e \in ToSet(f.semantic)
    <3>1. CASE Restore
      <4>1. PICK f \in file : TRUE
        BY <3>1 DEF Restore
      <4> QED BY <3>1, <4>1, RestoreFacts
    <3>2. CASE StartEmpty \/ Crash
      BY <3>2 DEF StartEmpty, Crash, ToSet
    <3> QED BY <1>4, <3>1, <3>2
  <2>2. writers' = {} /\ late' = Nothing /\ flushed' = Nothing
    BY <1>4 DEF Restore, StartEmpty, Crash, Begin
  <2>3. Numbered'
    BY <1>1, <1>2, <2>1, <2>2, NothingPast DEF Histories, Numbered
  <2>4. Purged'
    BY <2>2, NothingPast DEF Purged
  <2> QED BY <2>3, <2>4 DEF Histories
<1> QED BY <1>3, <1>4

LEMMA HistoriesStep ==
    ASSUME Typed, Lively, Histories, [Next]_vars
    PROVE  Histories'
<1>1. CASE UNCHANGED vars
  BY <1>1 DEF vars, caches, process, history, Histories, Numbered, Purged
<1> QED BY <1>1, CacheHistories, SaveHistories, LifeHistories DEF Next

(* What is cached after the signal, expires, is evicted or purged is not   *)
(* asked of a snapshot any more.                                           *)
LEMMA WellStays ==
    ASSUME \A e \in exact' : Lives(e)' => Lives(e),
           \A e \in ToSet(semantic') : Lives(e)' => Lives(e),
           \A e \in exact' : e \in exact \/ e.answer \in late'["exact"],
           \A e \in ToSet(semantic') : e \in ToSet(semantic) \/ e.answer \in late'["semantic"],
           \A a \in late["exact"] : a \in late'["exact"],
           \A a \in late["semantic"] : a \in late'["semantic"],
           UNCHANGED flushed, NEW d
    PROVE  /\ ExactWell(d) => ExactWell(d)'
           /\ SemanticWell(d) => SemanticWell(d)'
BY Zenon DEF ExactWell, SemanticWell

LEMMA LivesStays ==
  ASSUME UNCHANGED now
  PROVE  \A e : Lives(e)' <=> Lives(e)
BY DEF Lives, SemanticCache!Lives

(* When the saves that can still write, and the file, stay as they are.    *)
LEMMA AfterSignalStays ==
    ASSUME AfterSignal, \A e \in exact' : Lives(e)' => Lives(e),
           \A e \in ToSet(semantic') : Lives(e)' => Lives(e),
           \A e \in exact' : e \in exact \/ e.answer \in late'["exact"],
           \A e \in ToSet(semantic') : e \in ToSet(semantic) \/ e.answer \in late'["semantic"],
           \A a \in late["exact"] : a \in late'["exact"],
           \A a \in late["semantic"] : a \in late'["semantic"],
           UNCHANGED <<flushed, file, final>>,
           \A s \in Savers : LastSave(s)' => LastSave(s) /\ saver'[s] = saver[s],
           life' \in {"draining", "exited"} => life \in {"draining", "exited"}
    PROVE  AfterSignal'
<1>1. \A d : (ExactWell(d) => ExactWell(d)') /\ (SemanticWell(d) => SemanticWell(d)')
  BY WellStays
<1>2. ASSUME NEW s \in Savers, LastSave(s)'
      PROVE  /\ ExactWell(saver[s].data)'
             /\ saver'[s].pc # "exporting" => SemanticWell(saver[s].data)'
  <2>1. PICK d : d = saver[s].data
    OBVIOUS
  <2>2. LastSave(s) /\ saver'[s] = saver[s]
    BY <1>2
  <2>3. ExactWell(d) /\ (saver[s].pc # "exporting" => SemanticWell(d))
    BY <2>1, <2>2 DEF AfterSignal
  <2>4. ExactWell(d)' /\ (saver'[s].pc # "exporting" => SemanticWell(d)')
    BY <1>1, <2>2, <2>3
  <2>5. d = saver'[s].data
    BY <2>1, <2>2
  <2> QED BY <2>4, <2>5 DEF ExactWell, SemanticWell
<1>3. ASSUME final' = "saved", life' \in {"draining", "exited"}
      PROVE  file' # {} /\ \A f \in file' : ExactWell(f)' /\ SemanticWell(f)'
  <2>1. file # {} /\ \A f \in file : ExactWell(f) /\ SemanticWell(f)
    BY <1>3 DEF AfterSignal
  <2> QED BY <1>1, <2>1
<1> QED BY <1>2, <1>3 DEF AfterSignal

LEMMA CacheAfterSignal ==
    ASSUME Typed, Lively, Histories, AfterSignal,
           \/ \E e \in exact : ExactGet(e)
           \/ \E a \in Answers : Store(a)
           \/ \E a \in writers : WriteSemantic(a)
           \/ PurgeExact \/ PurgeSemantic
    PROVE  AfterSignal'
<1>1. /\ UNCHANGED <<file, saver, life, now, final, holder>> /\ Up
      /\ life # "serving" => UNCHANGED flushed
      /\ \/ Drops
         \/ \E a \in Answers : Stores(a) \/ WritesSemantic(a)
         \/ PurgesExact \/ PurgesSemantic
  BY CacheMoves DEF Histories
<1>2. CASE life = "serving"
  <2>1. \A s \in Savers : ~LastSave(s)'
    BY <1>1, <1>2 DEF LastSave, Lively, Active
  <2> QED BY <1>1, <1>2, <2>1 DEF AfterSignal
<1>3. CASE life # "serving"
  <2>1. /\ \A e \in exact' : e \in exact \/ e.answer \in late'["exact"]
        /\ \A e \in ToSet(semantic') : e \in ToSet(semantic) \/ e.answer \in late'["semantic"]
        /\ \A a \in late["exact"] : a \in late'["exact"]
        /\ \A a \in late["semantic"] : a \in late'["semantic"]
    <3>1. CASE Drops
      BY <3>1 DEF Drops
    <3>2. CASE \E a \in Answers : Stores(a)
      BY <1>3, <3>2 DEF Stores
    <3>3. CASE \E a \in Answers : WritesSemantic(a)
      BY <1>3, <3>3 DEF WritesSemantic
    <3>4. CASE PurgesExact \/ PurgesSemantic
      BY <3>4 DEF PurgesExact, PurgesSemantic
    <3> QED BY <1>1, <3>1, <3>2, <3>3, <3>4
  <2>2. UNCHANGED <<flushed, file, final, life>> /\ \A e : Lives(e)' <=> Lives(e)
    BY <1>1, <1>3, LivesStays
  <2>3. \A s \in Savers : LastSave(s)' => LastSave(s) /\ saver'[s] = saver[s]
    BY <1>1 DEF LastSave
  <2> QED BY <2>1, <2>2, <2>3, AfterSignalStays
<1> QED BY <1>2, <1>3

LEMMA SaveAfterSignal ==
    ASSUME Typed, Lively, Histories, AfterSignal, LockInUse, NEW s \in Savers,
           Lock(s) \/ ExportSemantic(s) \/ Write(s) \/ Rename(s) \/ SaveFails(s)
    PROVE  AfterSignal'
<1>1. /\ UNCHANGED <<exact, semantic, now, late, flushed>>
      /\ \A t \in Savers : t # s => saver'[t] = saver[t]
  BY SaveMoves DEF caches
<1>2. \A d : (ExactWell(d) <=> ExactWell(d)') /\ (SemanticWell(d) <=> SemanticWell(d)')
  BY <1>1, LivesStays DEF ExactWell, SemanticWell
<1>3. Purged
  BY DEF Histories
<1>4. Up
  BY SaveUp
<1>5. ASSUME saver[s].pc = "waiting", saver'[s].pc = "exporting",
             saver'[s].data.exact = ExactExport, UNCHANGED <<file, life, final>>
      PROVE  AfterSignal'
  <2>1. PICK d : d = saver'[s].data
    OBVIOUS
  <2>2. ExactWell(d)
    BY <1>3, <1>5, <2>1 DEF ExactWell, ExactExport, Purged
  <2>3. ExactWell(saver[s].data)'
    BY <1>2, <2>1, <2>2 DEF ExactWell
  <2> QED BY <1>1, <1>2, <1>5, <2>3 DEF AfterSignal, LastSave, ExactWell, SemanticWell
<1>6. ASSUME saver[s].pc = "exporting", saver'[s].pc = "writing",
             saver'[s].data.exact = saver[s].data.exact,
             ToSet(saver'[s].data.semantic) = {e \in ToSet(semantic) : Lives(e)},
             UNCHANGED <<file, life, final>>
      PROVE  AfterSignal'
  <2>1. PICK d : d = saver'[s].data
    OBVIOUS
  <2>2. SemanticWell(d)
    BY <1>3, <1>6, <2>1 DEF SemanticWell, Purged
  <2>3. SemanticWell(saver[s].data)'
    BY <1>2, <2>1, <2>2 DEF SemanticWell
  <2>4. LastSave(s)' => ExactWell(saver[s].data)'
    BY <1>1, <1>6, LivesStays DEF AfterSignal, LastSave, Active, ExactWell
  <2> QED BY <1>1, <1>2, <1>6, <2>3, <2>4 DEF AfterSignal, LastSave, ExactWell, SemanticWell
<1>7. ASSUME saver[s].pc = "writing", saver'[s].pc = "written",
             saver'[s].data.exact = saver[s].data.exact,
             saver'[s].data.semantic = saver[s].data.semantic, UNCHANGED <<file, life, final>>
      PROVE  AfterSignal'
  <2>1. LastSave(s)' => ExactWell(saver[s].data)' /\ SemanticWell(saver[s].data)'
    BY <1>1, <1>7, LivesStays DEF AfterSignal, LastSave, Active, ExactWell, SemanticWell
  <2> QED BY <1>1, <1>2, <1>7, <2>1 DEF AfterSignal, LastSave, ExactWell, SemanticWell
<1>8. ASSUME saver[s].pc \in {"writing", "written"}, saver'[s].pc = "idle",
             \/ file' = file /\ (final' = "failed" \/ s # "main")
             \/ file' = {saver[s].data} /\ saver[s].pc = "written",
             IF s = "main" THEN life' = "draining" ELSE UNCHANGED <<life, final>>
      PROVE  AfterSignal'
  <2>1. holder = s /\ \A t \in Savers : t # s => saver[t].pc \notin Active
    BY <1>8 DEF LockInUse, Active
  <2>2. \A t \in Savers : ~LastSave(t)'
    BY <1>1, <1>8, <2>1 DEF LastSave, Active
  <2>3. ASSUME final' = "saved", life' \in {"draining", "exited"}
        PROVE  file' # {} /\ \A f \in file' : ExactWell(f)' /\ SemanticWell(f)'
    <3>1. CASE file' = file /\ (final' = "failed" \/ s # "main")
      <4>1. final = "saved" /\ life \in {"draining", "exited"}
        BY <1>8, <2>3, <3>1
      <4> QED BY <1>2, <3>1, <4>1 DEF AfterSignal
    <3>2. CASE file' = {saver[s].data} /\ saver[s].pc = "written"
      <4>1. s = "main" \/ life = "draining"
        BY <1>4, <1>8, <2>3 DEF Up
      <4>2. LastSave(s)
        BY <3>2, <4>1 DEF LastSave, Active
      <4>3. ExactWell(saver[s].data) /\ SemanticWell(saver[s].data)
        BY <3>2, <4>2 DEF AfterSignal
      <4> QED BY <1>2, <3>2, <4>3
    <3> QED BY <1>8, <3>1, <3>2
  <2> QED BY <2>2, <2>3 DEF AfterSignal
<1>9. \/ /\ saver[s].pc = "waiting" /\ saver'[s].pc = "exporting"
         /\ saver'[s].data.exact = ExactExport /\ UNCHANGED <<file, life, final>>
      \/ /\ saver[s].pc = "exporting" /\ saver'[s].pc = "writing"
         /\ saver'[s].data.exact = saver[s].data.exact
         /\ ToSet(saver'[s].data.semantic) = {e \in ToSet(semantic) : Lives(e)}
         /\ UNCHANGED <<file, life, final>>
      \/ /\ saver[s].pc = "writing" /\ saver'[s].pc = "written"
         /\ saver'[s].data.exact = saver[s].data.exact
         /\ saver'[s].data.semantic = saver[s].data.semantic
         /\ UNCHANGED <<file, life, final>>
      \/ /\ saver[s].pc \in {"writing", "written"} /\ saver'[s].pc = "idle"
         /\ \/ file' = file /\ (final' = "failed" \/ s # "main")
            \/ file' = {saver[s].data} /\ saver[s].pc = "written"
         /\ IF s = "main" THEN life' = "draining" ELSE UNCHANGED <<life, final>>
  BY SaveMoves
<1> QED BY <1>5, <1>6, <1>7, <1>8, <1>9

LEMMA LifeAfterSignal ==
    ASSUME Typed, AfterSignal, Tick \/ Restore \/ StartEmpty \/ Stop \/ Exit \/ Crash \/ Pass
    PROVE  AfterSignal'
<1>1. CASE Tick \/ Stop
  <2>1. PICK s \in Savers : Saving(s, "idle", "waiting")
    BY <1>1 DEF Tick, Stop, Savers
  <2>2. DOMAIN saver = Savers /\ \A t \in Savers : DOMAIN saver[t] = {"pc", "data"}
    BY TypedFacts
  <2>3. saver'[s].pc = "waiting" /\ \A t \in Savers : t # s => saver'[t] = saver[t]
    BY <2>1, <2>2, SMT DEF Saving
  <2>4. /\ UNCHANGED <<exact, semantic, now, late, flushed, file, final>>
        /\ life' = life \/ life' = "stopping"
    BY <1>1 DEF Tick, Stop, caches, history
  <2>5. \A t \in Savers : LastSave(t)' => LastSave(t) /\ saver'[t] = saver[t]
    BY <2>3, <2>4 DEF LastSave, Active
  <2> QED BY <2>4, <2>5, LivesStays, AfterSignalStays
<1>2. CASE Restore \/ StartEmpty \/ Crash
  <2>1. saver' = Idle /\ life' \in {"serving", "down"}
    BY <1>2 DEF Restore, StartEmpty, Crash, Begin
  <2> QED BY <2>1, BlankData DEF AfterSignal, LastSave, Active
<1>3. CASE Exit
  <2>1. /\ saver' = Idle /\ life = "draining"
        /\ UNCHANGED <<exact, semantic, now, late, flushed, file, final>>
    BY <1>3 DEF Exit, caches, history
  <2>2. \A s \in Savers : ~LastSave(s)'
    BY <2>1, BlankData DEF LastSave, Active
  <2> QED BY <2>1, <2>2, LivesStays, AfterSignalStays
<1>4. CASE Pass
  <2>1. now' = now + 1 /\ UNCHANGED <<exact, semantic, saver, life, late, flushed, file, final>>
    BY <1>4 DEF Pass, caches, process, history
  <2>2. /\ \A e \in exact : e.expiresAt \in Nat
        /\ \A e \in ToSet(semantic) : e.expiresAt \in Nat
        /\ now \in Nat
    <3>1. exact \subseteq ExactEntry /\ semantic \in Seq(Entry) /\ now \in Nat
      BY TypedFacts
    <3>2. \A i \in 1 .. Len(semantic) : semantic[i] \in Entry
      BY <3>1, ElementOfSeq
    <3>3. \A e \in ToSet(semantic) : e \in Entry
      BY <3>1, <3>2 DEF ToSet
    <3> QED BY <3>1, <3>3 DEF ExactEntry, Entry, SemanticCache!Entry
  <2>3. /\ \A e \in exact' : Lives(e)' => Lives(e)
        /\ \A e \in ToSet(semantic') : Lives(e)' => Lives(e)
    BY <2>1, <2>2 DEF Lives, SemanticCache!Lives
  <2>4. \A s \in Savers : LastSave(s)' => LastSave(s) /\ saver'[s] = saver[s]
    BY <2>1 DEF LastSave
  <2> QED BY <2>1, <2>3, <2>4, AfterSignalStays
<1> QED BY <1>1, <1>2, <1>3, <1>4

LEMMA AfterSignalStep ==
    ASSUME Typed, Lively, Histories, AfterSignal, LockInUse, [Next]_vars
    PROVE  AfterSignal'
<1>1. CASE UNCHANGED vars
  <2>1. UNCHANGED <<exact, semantic, now, late, flushed, saver, life, file, final>>
    BY <1>1 DEF vars, caches, process, history
  <2>2. \A s \in Savers : LastSave(s)' => LastSave(s) /\ saver'[s] = saver[s]
    BY <2>1 DEF LastSave
  <2> QED BY <2>1, <2>2, LivesStays, AfterSignalStays
<1> QED BY <1>1, CacheAfterSignal, SaveAfterSignal, LifeAfterSignal DEF Next

LEMMA AfterSignalHolds == Spec => []AfterSignal
BY InitTyped, TypedStep, LivelyStep, InitHistories, HistoriesStep, AfterSignalStep, SavesExclude,
   PTL DEF Spec

(* After a graceful stop whose save succeeded, the file has everything     *)
(* that was cached at the signal and is still cached and alive, also when  *)
(* a tick that was due had the timer save once more.                       *)
THEOREM NothingIsLost == Spec => []StopKeeps
<1>1. AfterSignal => StopKeeps
  BY DEF AfterSignal, StopKeeps, StoppedWell, ExactWell, SemanticWell
<1> QED BY <1>1, AfterSignalHolds, PTL

(* After it, nothing that was purged before the signal is in the file,     *)
(* whatever goroutines were still to write and whichever save exported one *)
(* cache before the purge.                                                 *)
THEOREM PurgedStaysAway == Spec => []PurgeOutlivesStop
<1>1. AfterSignal => PurgeOutlivesStop
  BY DEF AfterSignal, PurgeOutlivesStop, StoppedWell, ExactWell, SemanticWell, AnswersIn
<1> QED BY <1>1, AfterSignalHolds, PTL

-----------------------------------------------------------------------------
(* What a restart makes of the file.                                       *)

(* The entries of a semantic cache stand in the order of their ages.       *)
Aged(s) ==
    /\ \A i, j \in 1 .. Len(s) : i < j => s[i].expiresAt <= s[j].expiresAt
    /\ \A i \in 1 .. Len(s) : s[i].expiresAt <= now + SemanticTTL

OldestFirst ==
    /\ Aged(semantic)
    /\ \A s \in Savers : Aged(saver[s].data.semantic)
    /\ \A f \in file : Aged(f.semantic)

LEMMA SameAged == \A s : Facts!Aged(s) <=> Aged(s)
BY DEF Facts!Aged, Aged

LEMMA EmptyAged == Aged(<<>>)
BY DEF Aged

LEMMA AddedAged ==
  ASSUME semantic \in Seq(Entry), capacity \in Nat \ {0}, Len(semantic) <= capacity,
         now \in Nat, NEW a \in Answers, Aged(semantic)
  PROVE  Aged(SemanticCache!Added(semantic, Asked[a], Asked[a], a))
<1>1. [prompt |-> Asked[a], model |-> Asked[a], answer |-> a,
      expiresAt |-> now + SemanticTTL] \in Entry
  BY SnapshotAssumption DEF Entry, SemanticCache!Entry, Requests
<1>2. Facts!MakeRoom(semantic) = SemanticCache!MakeRoom(semantic)
  BY SameKept DEF Facts!MakeRoom, SemanticCache!MakeRoom,
     Facts!DropCount, SemanticCache!DropCount
<1>3. Facts!Added(semantic, Asked[a], Asked[a], a)
         = SemanticCache!Added(semantic, Asked[a], Asked[a], a)
  BY <1>2 DEF Facts!Added, SemanticCache!Added
<1>4. SemanticTTL \in Nat /\ Facts!Aged(semantic)
  BY SnapshotAssumption, SameAged
<1>5. Facts!Aged(Facts!Added(semantic, Asked[a], Asked[a], a))
  BY <1>1, <1>4, Facts!AddedAged, CacheAssumption
<1> QED BY <1>3, <1>5, SameAged

LEMMA ExportAged ==
  ASSUME semantic \in Seq(Entry), Aged(semantic)
  PROVE  Aged(SemanticCache!ExportEntries(semantic))
<1>1. Facts!ExportEntries(semantic) = SemanticCache!ExportEntries(semantic)
  BY SameKept DEF Facts!ExportEntries, SemanticCache!ExportEntries
<1>2. Facts!Aged(Facts!ExportEntries(semantic))
  BY SameAged, Facts!ExportAged, CacheAssumption
<1> QED BY <1>1, <1>2, SameAged

LEMMA ImportAged ==
  ASSUME NEW s \in Seq(Entry), NEW limit \in Nat, Aged(s)
  PROVE  LET in == SemanticCache!ImportEntries(s, limit) IN
         /\ Aged(in)
         /\ \A e \in ToSet(s) : Lives(e) =>
               \/ e \in ToSet(in)
               \/ Len(in) = limit /\ \A g \in ToSet(in) : g.expiresAt >= e.expiresAt
<1>1. Facts!ImportEntries(s, limit) = SemanticCache!ImportEntries(s, limit)
  BY SameKept DEF Facts!ImportEntries, SemanticCache!ImportEntries, Facts!Min, SemanticCache!Min
<1> DEFINE in == Facts!ImportEntries(s, limit)
<1>2. /\ Facts!Aged(in)
      /\ \A e \in Facts!ToSet(s) : Facts!Lives(e) =>
            \/ e \in Facts!ToSet(in)
            \/ Len(in) = limit /\ \A g \in Facts!ToSet(in) : g.expiresAt >= e.expiresAt
  BY SameAged, Facts!ImportAged, CacheAssumption
<1> HIDE DEF in
<1>3. /\ Aged(in)
      /\ \A e \in ToSet(s) : Lives(e) =>
            \/ e \in ToSet(in)
            \/ Len(in) = limit /\ \A g \in ToSet(in) : g.expiresAt >= e.expiresAt
  BY <1>2, SameAged, SameLives, SameToSet
<1>4. in = SemanticCache!ImportEntries(s, limit)
  BY <1>1 DEF in
<1> QED BY <1>3, <1>4

LEMMA InitAged == Init => OldestFirst
<1>1. Blank.semantic = <<>>
  BY DEF Blank, Snapshot
<1> HIDE DEF Blank
<1> QED BY <1>1, EmptyAged DEF Init, OldestFirst, Idle

(* Steps that leave the semantic cache as it is, or empty, and so the saves *)
(* and the file.                                                           *)
LEMMA AgedStays ==
    ASSUME OldestFirst, UNCHANGED <<now, file>>, Aged(semantic'),
           \A s \in Savers : \/ saver'[s].data.semantic = saver[s].data.semantic
                             \/ saver'[s].data.semantic = <<>>
    PROVE  OldestFirst'
<1>1. \A x : Aged(x) => (\A i, j \in 1 .. Len(x) : i < j => x[i].expiresAt <= x[j].expiresAt)
                        /\ \A i \in 1 .. Len(x) : x[i].expiresAt <= now' + SemanticTTL
  BY DEF Aged
<1>2. Aged(semantic)'
  BY <1>1 DEF Aged
<1>3. ASSUME NEW s \in Savers PROVE Aged(saver[s].data.semantic)'
  <2>1. Aged(saver'[s].data.semantic)
    BY EmptyAged DEF OldestFirst
  <2> QED BY <1>1, <2>1 DEF Aged
<1>4. ASSUME NEW f \in file' PROVE Aged(f.semantic)'
  <2>1. Aged(f.semantic)
    BY <1>4 DEF OldestFirst
  <2> QED BY <1>1, <2>1 DEF Aged
<1> QED BY <1>2, <1>3, <1>4 DEF OldestFirst

LEMMA OldestFirstStep ==
    ASSUME Typed, Lively, OldestFirst, [Next]_vars
    PROVE  OldestFirst'
<1>1. /\ semantic \in Seq(Entry) /\ Len(semantic) <= capacity /\ capacity \in Nat /\ now \in Nat
      /\ writers \subseteq Answers /\ (Up => capacity # 0) /\ Aged(semantic)
      /\ \A s \in Savers : DOMAIN saver[s].data = {"whole", "exact", "semantic", "at"}
      /\ DOMAIN saver = Savers /\ \A s \in Savers : DOMAIN saver[s] = {"pc", "data"}
  BY SnapshotAssumption DEF Typed, TypeOK, Sized, Shape, Entry, OldestFirst
<1>2. \A s \in Savers : Idle[s].data.semantic = <<>>
  <2>1. Blank.semantic = <<>>
    BY DEF Blank, Snapshot
  <2> HIDE DEF Blank
  <2> QED BY <2>1 DEF Idle
<1>3. CASE \/ \E e \in exact : ExactGet(e)
           \/ \E a \in Answers : Store(a)
           \/ PurgeExact \/ PurgeSemantic
  <2>1. UNCHANGED <<now, file, saver>> /\ (semantic' = semantic \/ semantic' = <<>>)
    BY <1>3 DEF ExactGet, Store, PurgeExact, PurgeSemantic, process
  <2> QED BY <1>1, <2>1, EmptyAged, AgedStays
<1>4. ASSUME NEW a \in writers, WriteSemantic(a) PROVE OldestFirst'
  <2>1. /\ UNCHANGED <<now, file, saver>> /\ Up
        /\ semantic' = SemanticCache!Added(semantic, Asked[a], Asked[a], a)
    BY <1>4 DEF WriteSemantic, process
  <2>2. Aged(semantic')
    BY <1>1, <2>1, AddedAged
  <2> QED BY <2>1, <2>2, AgedStays
<1>5. CASE Tick \/ Stop
  <2>1. PICK s \in Savers : Saving(s, "idle", "waiting")
    BY <1>5 DEF Tick, Stop, Savers
  <2>2. \A t \in Savers : saver'[t].data = saver[t].data
    BY <1>1, <2>1, SMT DEF Saving
  <2>3. UNCHANGED <<now, file, semantic>>
    BY <1>5 DEF Tick, Stop, caches
  <2> QED BY <1>1, <2>2, <2>3, AgedStays
<1>6. ASSUME NEW s \in Savers, ExportSemantic(s) PROVE OldestFirst'
  <2> DEFINE out == SemanticCache!ExportEntries(semantic)
  <2>1. /\ saver' = [saver EXCEPT ![s].pc = "writing", ![s].data.semantic = out]
        /\ UNCHANGED <<now, file, semantic>>
    BY <1>6 DEF ExportSemantic, caches
  <2>2. Aged(out)
    BY <1>1, ExportAged
  <2> HIDE DEF out
  <2>3. /\ \A t \in Savers : t # s => saver'[t] = saver[t]
        /\ saver'[s].data.semantic = out
    BY <1>1, <2>1, SMT
  <2>4. \A x : Aged(x)' <=> Aged(x)
    BY <2>1 DEF Aged
  <2>5. ASSUME NEW t \in Savers PROVE Aged(saver[t].data.semantic)'
    <3>1. Aged(saver'[t].data.semantic)
      BY <2>2, <2>3 DEF OldestFirst
    <3> QED BY <2>1, <3>1 DEF Aged
  <2>6. ASSUME NEW f \in file' PROVE Aged(f.semantic)'
    <3>1. Aged(f.semantic)
      BY <2>1, <2>6 DEF OldestFirst
    <3> QED BY <2>1, <3>1 DEF Aged
  <2>7. Aged(semantic)'
    BY <1>1, <2>1 DEF Aged
  <2> QED BY <2>5, <2>6, <2>7 DEF OldestFirst
<1>7. ASSUME NEW s \in Savers, Lock(s) \/ Write(s) \/ SaveFails(s) PROVE OldestFirst'
  <2>1. UNCHANGED <<now, file, semantic>>
    BY <1>7 DEF Lock, Write, SaveFails, caches
  <2>2. \A t \in Savers : \/ saver'[t].data.semantic = saver[t].data.semantic
                          \/ saver'[t].data.semantic = <<>>
    <3>1. \A t \in Savers : t # s => saver'[t] = saver[t]
      BY <1>7, SaveMoves
    <3>2. \/ saver'[s].data.semantic = saver[s].data.semantic
          \/ saver'[s].data.semantic = <<>>
      <4>1. CASE Lock(s)
        <5>1. /\ saver'[s].data = Snapshot(FALSE, ExactExport, <<>>, now)
          BY <1>1, <4>1, SMT DEF Lock
        <5> QED BY <5>1 DEF Snapshot
      <4>2. CASE Write(s)
        BY <1>1, <4>2, SMT DEF Write
      <4>3. CASE SaveFails(s)
        <5>1. saver' = [saver EXCEPT ![s] = Idle[s]]
          BY <4>3 DEF SaveFails, Return
        <5>2. saver'[s] = Idle[s]
          BY <1>1, <5>1
        <5> QED BY <1>2, <5>2
      <4> QED BY <1>7, <4>1, <4>2, <4>3
    <3> QED BY <3>1, <3>2
  <2> QED BY <1>1, <2>1, <2>2, AgedStays
<1>8. ASSUME NEW s \in Savers, Rename(s) PROVE OldestFirst'
  <2>1. UNCHANGED <<now, semantic>> /\ file' = {saver[s].data}
    BY <1>8 DEF Rename, caches
  <2>2. \A t \in Savers : \/ saver'[t].data.semantic = saver[t].data.semantic
                          \/ saver'[t].data.semantic = <<>>
    <3>1. saver' = [saver EXCEPT ![s] = Idle[s]]
      BY <1>8 DEF Rename, Return
    <3>2. saver'[s] = Idle[s] /\ \A t \in Savers : t # s => saver'[t] = saver[t]
      BY <1>1, <3>1
    <3> QED BY <1>2, <3>2
  <2>3. ASSUME NEW t \in Savers PROVE Aged(saver[t].data.semantic)'
    <3>1. Aged(saver'[t].data.semantic)
      BY <2>2, EmptyAged DEF OldestFirst
    <3> QED BY <2>1, <3>1 DEF Aged
  <2>4. ASSUME NEW f \in file' PROVE Aged(f.semantic)'
    <3>1. Aged(f.semantic)
      BY <2>1, <2>4 DEF OldestFirst
    <3> QED BY <2>1, <3>1 DEF Aged
  <2>5. Aged(semantic)'
    BY <1>1, <2>1 DEF Aged
  <2> QED BY <2>3, <2>4, <2>5 DEF OldestFirst
<1>9. CASE Restore
  <2>1. PICK f \in file : f.whole
    BY <1>9 DEF Restore
  <2>2. /\ f.semantic \in Seq(Entry) /\ capacity' \in Nat
        /\ semantic' = SemanticCache!ImportEntries(f.semantic, capacity')
    BY <1>9, RestoreFacts
  <2>3. Aged(semantic')
    BY <2>2, ImportAged DEF OldestFirst
  <2>4. saver' = Idle /\ UNCHANGED <<now, file>>
    BY <1>9 DEF Restore, Begin
  <2> QED BY <1>2, <2>3, <2>4, AgedStays
<1>10. CASE StartEmpty \/ Exit \/ Crash
  <2>1. saver' = Idle /\ UNCHANGED <<now, file>> /\ (semantic' = semantic \/ semantic' = <<>>)
    BY <1>10 DEF StartEmpty, Begin, Exit, Crash, caches
  <2> QED BY <1>1, <1>2, <2>1, EmptyAged, AgedStays
<1>11. CASE UNCHANGED vars
  <2>1. UNCHANGED <<now, file, saver, semantic>>
    BY <1>11 DEF vars, caches, process
  <2> QED BY <1>1, <2>1, AgedStays
<1>12. CASE Pass
  <2>1. UNCHANGED <<file, saver, semantic>> /\ now' = now + 1
    BY <1>12 DEF Pass, caches, process
  <2>2. ASSUME NEW x \in Seq(Entry), Aged(x) PROVE Aged(x)'
    <3>1. \A i \in 1 .. Len(x) : x[i].expiresAt \in Nat
      <4>1. \A i \in 1 .. Len(x) : x[i] \in Entry
        BY ElementOfSeq
      <4> QED BY <4>1 DEF Entry, SemanticCache!Entry
    <3>2. SemanticTTL \in Nat
      BY SnapshotAssumption
    <3> QED BY <1>1, <2>1, <2>2, <3>1, <3>2 DEF Aged
  <2>3. /\ \A s \in Savers : saver[s].data.semantic \in Seq(Entry)
        /\ \A f \in file : f.semantic \in Seq(Entry)
    BY DEF Typed, TypeOK, SnapshotTypeOK, Entry
  <2>4. ASSUME NEW s \in Savers PROVE Aged(saver[s].data.semantic)'
    <3>1. PICK x \in Seq(Entry) : x = saver[s].data.semantic
      BY <2>3
    <3> QED BY <2>1, <2>2, <3>1 DEF OldestFirst, Aged
  <2>5. ASSUME NEW f \in file' PROVE Aged(f.semantic)'
    BY <2>1, <2>2, <2>3, <2>5 DEF OldestFirst, Aged
  <2>6. Aged(semantic)'
    BY <1>1, <2>1, <2>2 DEF Aged
  <2> QED BY <2>4, <2>5, <2>6 DEF OldestFirst
<1> QED BY <1>3, <1>4, <1>5, <1>6, <1>7, <1>8, <1>9, <1>10, <1>11, <1>12 DEF Next

LEMMA ResumeStep ==
    ASSUME Typed, OldestFirst, AfterSignal, Restore, StoppedWell
    PROVE  /\ \A e \in exact : Lives(e) /\ e.answer \notin late.exact =>
                 e \in exact' \/ Cardinality(exact') = capacity'
           /\ \A e \in ToSet(semantic) : Lives(e) /\ e.answer \notin late.semantic =>
                 \/ e \in ToSet(semantic')
                 \/ /\ Len(semantic') = capacity'
                    /\ \A g \in ToSet(semantic') : g.expiresAt >= e.expiresAt
           /\ AnswersIn(exact') \cap flushed.exact = {}
           /\ AnswersIn(ToSet(semantic')) \cap flushed.semantic = {}
<1>1. PICK f \in file : f.whole
  BY DEF Restore
<1>2. ExactWell(f) /\ SemanticWell(f)
  BY DEF AfterSignal, StoppedWell
<1>3. /\ exact' \subseteq f.exact /\ capacity' \in Nat
      /\ \A e \in f.exact : Lives(e) => e \in exact' \/ Cardinality(exact') = capacity'
      /\ ToSet(semantic') \subseteq ToSet(f.semantic) /\ f.semantic \in Seq(Entry)
      /\ semantic' = SemanticCache!ImportEntries(f.semantic, capacity')
  BY RestoreFacts
<1>4. \A e \in ToSet(f.semantic) : Lives(e) =>
          \/ e \in ToSet(semantic')
          \/ /\ Len(semantic') = capacity'
             /\ \A g \in ToSet(semantic') : g.expiresAt >= e.expiresAt
  BY <1>3, ImportAged DEF OldestFirst
<1>5. /\ \A e \in exact : Lives(e) /\ e.answer \notin late.exact => e \in f.exact
      /\ \A e \in f.exact : e.answer \notin flushed.exact
      /\ \A e \in ToSet(semantic) :
            Lives(e) /\ e.answer \notin late.semantic => e \in ToSet(f.semantic)
      /\ \A e \in ToSet(f.semantic) : e.answer \notin flushed.semantic
  BY <1>2 DEF ExactWell, SemanticWell
<1>6. /\ AnswersIn(exact') \cap flushed.exact = {}
      /\ AnswersIn(ToSet(semantic')) \cap flushed.semantic = {}
  BY <1>3, <1>5 DEF AnswersIn
<1> QED BY <1>3, <1>4, <1>5, <1>6

LEMMA OldestFirstHolds == Spec => []OldestFirst
BY InitAged, OldestFirstStep, TypedHolds, PTL DEF Spec

(* A process started after a stop whose save succeeded goes on with what   *)
(* the stopped one served: what is alive is there, unless the cache is     *)
(* full, the semantic one of entries no older, and what was purged is not. *)
THEOREM RestartGoesOn == Spec => RestartResumes
<1> DEFINE Resumes == Restore /\ StoppedWell =>
         /\ \A e \in exact : Lives(e) /\ e.answer \notin late.exact =>
               e \in exact' \/ Cardinality(exact') = capacity'
         /\ \A e \in ToSet(semantic) : Lives(e) /\ e.answer \notin late.semantic =>
               \/ e \in ToSet(semantic')
               \/ /\ Len(semantic') = capacity'
                  /\ \A g \in ToSet(semantic') : g.expiresAt >= e.expiresAt
         /\ AnswersIn(exact') \cap flushed.exact = {}
         /\ AnswersIn(ToSet(semantic')) \cap flushed.semantic = {}
<1>1. Typed /\ OldestFirst /\ AfterSignal => [Resumes]_vars
  BY ResumeStep
<1> QED BY <1>1, TypedHolds, OldestFirstHolds, AfterSignalHolds, PTL DEF Spec, RestartResumes
=============================================================================
