-------------------------- MODULE AppReconcileProofs --------------------------
(***************************************************************************)
(* Proofs about the application loop, for every set of applications and    *)
(* configs, every order of their references and every set of faults.       *)
(***************************************************************************)
EXTENDS AppReconcile, FiniteSetTheorems, SequenceTheorems, TLAPS

-----------------------------------------------------------------------------
(* The inductive invariant.                                                *)

(* The containers: podman has no two of one name, and none whose image is  *)
(* not the one the local storage has for its reference.                    *)
ContainersAreSound ==
  /\ IsFiniteSet(containers)
  /\ \A c \in containers : local[Reference[c.config]] = c.digest
  /\ \A c, d \in containers : ContainerName[c.config] = ContainerName[d.config] => c = d

(* The vector has no application twice, and none without its container.    *)
VectorIsSound ==
  /\ \A i \in 1..Len(apps) : apps[i] \in containers
  /\ \A i, j \in 1..Len(apps) : apps[i] = apps[j] => i = j

(* The entries still to merge point at applications of the vector, the     *)
(* next one furthest to its end: this is what makes swap_remove harmless.  *)
CursorIsSound ==
  /\ \A k \in 1..Len(current) :
       current[k].index \in 1..Len(apps) /\ apps[current[k].index] = current[k].app
  /\ \A k, l \in 1..Len(current) : k < l => current[k].index > current[l].index

(* The images still to merge are those of wanted configs, each once.       *)
TargetIsSound ==
  /\ want \in Assignments
  /\ \A k \in 1..Len(target) :
       target[k].config \in want /\ local[Reference[target[k].config]] = target[k].digest
  /\ \A k, l \in 1..Len(target) : target[k].config = target[l].config => k = l

IsMerged(i) == \A k \in 1..Len(current) : current[k].index # i
IsAhead(c) == \E k \in 1..Len(target) : target[k].config = c

(* What has been merged is wanted and no longer ahead; what is wanted is   *)
(* ahead or has been merged.                                               *)
MergeIsSound ==
  pc \in {"merge", "launch"} =>
    /\ \A i \in 1..Len(apps) : IsMerged(i) => apps[i].config \in want /\ ~IsAhead(apps[i].config)
    /\ \A c \in want :
         IsAhead(c) \/ \E i \in 1..Len(apps) : IsMerged(i) /\ apps[i].config = c

Invariant ==
  /\ TypeOK
  /\ assigned \in Assignments
  /\ ContainersAreSound
  /\ VectorIsSound
  /\ CursorIsSound
  /\ TargetIsSound
  /\ MergeIsSound

-----------------------------------------------------------------------------
(* Sequences.                                                              *)

LEMMA RangeOf ==
  ASSUME NEW T, NEW s \in Seq(T)
  PROVE  /\ DOMAIN s = 1..Len(s) /\ Len(s) \in Nat
         /\ \A i \in 1..Len(s) : s[i] \in T
         /\ \A x : x \in Range(s) <=> \E i \in 1..Len(s) : s[i] = x
<1>1. DOMAIN s = 1..Len(s) /\ Len(s) \in Nat /\ \A i \in 1..Len(s) : s[i] \in T
  BY LenProperties, ElementOfSeq
<1>2. QED
  BY <1>1 DEF Range

LEMMA FunctionIsSeq ==
  ASSUME NEW T, NEW n \in Nat, NEW s \in [1..n -> T]
  PROVE  s \in Seq(T) /\ Len(s) = n
<1>1. s \in Seq(T)
  OBVIOUS
<1>2. DOMAIN s = 1..n /\ DOMAIN s = 1..Len(s) /\ Len(s) \in Nat
  BY <1>1, LenProperties
<1>3. QED
  BY <1>1, <1>2

LEMMA TailOf ==
  ASSUME NEW T, NEW s \in Seq(T), s # <<>>
  PROVE  /\ Head(s) \in T /\ Head(s) = s[1] /\ Len(s) \in Nat /\ 1 <= Len(s)
         /\ Tail(s) \in Seq(T) /\ Len(Tail(s)) = Len(s) - 1
         /\ \A i \in 1..Len(Tail(s)) : i + 1 \in 1..Len(s) /\ Tail(s)[i] = s[i + 1]
<1>1. /\ Head(s) \in T /\ Tail(s) \in Seq(T) /\ Len(Tail(s)) = Len(s) - 1
      /\ \A i \in 1..Len(Tail(s)) : Tail(s)[i] = s[i + 1]
  BY HeadTailProperties
<1>2. Len(s) \in Nat /\ 1 <= Len(s)
  BY EmptySeq, LenProperties
<1>3. Head(s) = s[1]
  BY <1>2
<1>4. QED
  BY <1>1, <1>2, <1>3

LEMMA BackwardsOf ==
  ASSUME NEW T, NEW s \in Seq(T)
  PROVE  /\ Backwards(s) \in Seq(T) /\ Len(Backwards(s)) = Len(s)
         /\ \A i \in 1..Len(s) :
              Len(s) + 1 - i \in 1..Len(s) /\ Backwards(s)[i] = s[Len(s) + 1 - i]
<1>1. DOMAIN s = 1..Len(s) /\ Len(s) \in Nat /\ \A i \in 1..Len(s) : s[i] \in T
  BY RangeOf
<1>2. \A i \in 1..Len(s) : Len(s) + 1 - i \in 1..Len(s)
  BY <1>1
<1>3. Backwards(s) \in [1..Len(s) -> T]
  BY <1>1, <1>2 DEF Backwards
<1>4. \A i \in 1..Len(s) : Backwards(s)[i] = s[Len(s) + 1 - i]
  BY <1>1 DEF Backwards
<1>5. QED
  BY <1>1, <1>2, <1>3, <1>4, FunctionIsSeq

LEMMA EntriesOf ==
  ASSUME NEW s \in Seq(Container)
  PROVE  /\ Entries(s) \in Seq(Entry) /\ Len(Entries(s)) = Len(s)
         /\ \A i \in 1..Len(s) :
              /\ Entries(s)[i].index = Len(s) + 1 - i
              /\ Len(s) + 1 - i \in 1..Len(s)
              /\ Entries(s)[i].app = s[Len(s) + 1 - i]
<1>1. DOMAIN s = 1..Len(s) /\ Len(s) \in Nat /\ \A i \in 1..Len(s) : s[i] \in Container
  BY RangeOf
<1>2. \A i \in 1..Len(s) : Len(s) + 1 - i \in 1..Len(s)
  BY <1>1
<1>3. \A i \in 1..Len(s) :
        Entries(s)[i] = [app |-> s[Len(s) + 1 - i], index |-> Len(s) + 1 - i]
  BY <1>1 DEF Entries
<1>4. ASSUME NEW i \in 1..Len(s) PROVE Entries(s)[i] \in Entry
  <2>1. Len(s) + 1 - i \in Nat /\ s[Len(s) + 1 - i] \in Container
    BY <1>1, <1>2
  <2>2. \A c \in Container, n \in Nat : [app |-> c, index |-> n] \in Entry
    BY DEF Entry
  <2>3. [app |-> s[Len(s) + 1 - i], index |-> Len(s) + 1 - i] \in Entry
    BY <2>1, <2>2
  <2>4. QED
    BY <1>3, <2>3
<1>5. Entries(s) \in [1..Len(s) -> Entry]
  <2>1. Entries(s) = [i \in 1..Len(s) |-> Entries(s)[i]]
    BY <1>1 DEF Entries
  <2>2. QED
    BY <1>4, <2>1
<1>6. QED
  BY <1>1, <1>2, <1>3, <1>5, FunctionIsSeq

(* What was last takes the place of what is removed, and nothing before    *)
(* that place moves.                                                       *)
LEMMA SwapRemoveOf ==
  ASSUME NEW T, NEW s \in Seq(T), NEW i \in 1..Len(s)
  PROVE  /\ SwapRemove(s, i) \in Seq(T) /\ Len(SwapRemove(s, i)) = Len(s) - 1
         /\ \A j \in 1..(Len(s) - 1) : SwapRemove(s, i)[j] = IF j = i THEN s[Len(s)] ELSE s[j]
<1>1. Len(s) \in Nat /\ \A j \in 1..Len(s) : s[j] \in T
  BY RangeOf
<1>2. Len(s) - 1 \in Nat /\ Len(s) \in 1..Len(s)
  BY <1>1
<1>3. \A j \in 1..(Len(s) - 1) : j \in 1..Len(s)
  BY <1>1
<1>4. SwapRemove(s, i) \in [1..(Len(s) - 1) -> T]
  BY <1>1, <1>2, <1>3 DEF SwapRemove
<1>5. \A j \in 1..(Len(s) - 1) : SwapRemove(s, i)[j] = IF j = i THEN s[Len(s)] ELSE s[j]
  BY DEF SwapRemove
<1>6. QED
  BY <1>2, <1>4, <1>5, FunctionIsSeq

(* An arrangement has every element once.                                  *)
LEMMA ArrangementOf ==
  ASSUME NEW T, NEW S \in SUBSET T, IsFiniteSet(S), NEW s \in Arrangements(S)
  PROVE  /\ s \in Seq(T)
         /\ Range(s) = S
         /\ \A i, j \in 1..Len(s) : s[i] = s[j] => i = j
<1>1. Cardinality(S) \in Nat
  BY FS_CardinalityType
<1> DEFINE n == Cardinality(S)
<1>2. /\ s \in [1..n -> S]
      /\ \A i, j \in 1..n : s[i] = s[j] => i = j
      /\ \A x \in S : \E i \in 1..n : s[i] = x
  BY DEF Arrangements, Bijection, Injection, Surjection, IsInjective
<1> HIDE DEF n
<1>3. s \in Seq(T) /\ Len(s) = n
  <2>1. s \in [1..n -> T]
    BY <1>2
  <2>2. QED
    BY <1>1, <2>1, FunctionIsSeq DEF n
<1>4. \A x : x \in Range(s) <=> x \in S
  BY <1>2, <1>3, RangeOf
<1>5. QED
  BY <1>2, <1>3, <1>4

LEMMA SortedOf ==
  ASSUME NEW s \in Seq(Container), IsFiniteSet(Range(s)), NEW t \in Sorted(s)
  PROVE  /\ t \in Seq(Container)
         /\ Range(t) = Range(s)
         /\ \A i, j \in 1..Len(t) : t[i] = t[j] => i = j
         /\ \A i, j \in 1..Len(t) : i < j => Reference[t[i].config] <= Reference[t[j].config]
<1>1. Range(s) \in SUBSET Container
  BY RangeOf
<1>2. t \in Arrangements(Range(s))
  BY DEF Sorted
<1>3. /\ t \in Seq(Container) /\ Range(t) = Range(s)
      /\ \A i, j \in 1..Len(t) : t[i] = t[j] => i = j
  BY <1>1, <1>2, ArrangementOf
<1>4. \A i, j \in DOMAIN t : i < j => Reference[t[i].config] <= Reference[t[j].config]
  BY DEF Sorted
<1>5. QED
  BY <1>3, <1>4, RangeOf

-----------------------------------------------------------------------------
(* Steps that leave the pass.                                              *)

LEMMA FaultTyped ==
  ASSUME NEW kind, TypeOK, Fault(kind)
  PROVE  faults' \in Nat
BY DEF TypeOK, Fault

LEMMA EmptyList == Len(<<>>) = 0 /\ \A T : <<>> \in Seq(T)
BY EmptySeq

LEMMA AbortIsSound ==
  ASSUME Abort
  PROVE  CursorIsSound' /\ TargetIsSound' /\ MergeIsSound'
<1>1. Len(<<>>) = 0
  BY EmptyList
<1>2. CursorIsSound'
  BY <1>1 DEF Abort, CursorIsSound
<1>3. TargetIsSound'
  BY <1>1 DEF Abort, TargetIsSound, Assignments
<1>4. MergeIsSound'
  BY DEF Abort, MergeIsSound
<1>5. QED
  BY <1>2, <1>3, <1>4

(* The types of the variables a pass does not own.                         *)
SurroundingsTyped ==
  /\ assigned \in Assignments
  /\ reported \in SUBSET Config
  /\ frozen \in BOOLEAN
  /\ containers \in SUBSET Container
  /\ local \in [References -> Digest \cup {NoDigest}]
  /\ apps \in Seq(Container)
  /\ faults \in Nat /\ assignments \in Nat

LEMMA AbortTyped ==
  ASSUME Abort, SurroundingsTyped'
  PROVE  TypeOK' /\ assigned' \in Assignments
<1>1. <<>> \in Seq(Entry) /\ <<>> \in Seq(Container)
  BY EmptyList
<1>2. QED
  BY <1>1 DEF Abort, SurroundingsTyped, TypeOK, PC, Assignments

LEMMA AbortInvariant ==
  ASSUME Abort, SurroundingsTyped', ContainersAreSound', VectorIsSound'
  PROVE  Invariant'
BY AbortIsSound, AbortTyped DEF Invariant

(* A vector that holds every container there is once, or all but some.     *)
LEMMA StartInvariant ==
  ASSUME Invariant, faults' \in Nat, NEW listed \in SUBSET containers, StartAgent(listed)
  PROVE  Invariant'
<1>1. /\ containers \in SUBSET Container /\ IsFiniteSet(containers)
      /\ containers' = containers /\ local' = local /\ Abort
  BY DEF Invariant, TypeOK, ContainersAreSound, StartAgent, podmanVars
<1>2. IsFiniteSet(listed) /\ listed \in SUBSET Container
  BY <1>1, FS_Subset
<1>3. /\ apps' \in Seq(Container) /\ Range(apps') = listed
      /\ \A i, j \in 1..Len(apps') : apps'[i] = apps'[j] => i = j
  BY <1>2, ArrangementOf DEF StartAgent
<1>4. SurroundingsTyped'
  BY <1>1, <1>3 DEF Invariant, TypeOK, StartAgent, SurroundingsTyped, cloudVars, podmanVars
<1>5. ContainersAreSound'
  BY <1>1 DEF Invariant, ContainersAreSound
<1>6. VectorIsSound'
  BY <1>1, <1>3, RangeOf DEF VectorIsSound
<1>7. QED
  BY <1>1, <1>4, <1>5, <1>6, AbortInvariant

(* Nothing but the pass itself changes.                                    *)
LEMMA PlainAbortInvariant ==
  ASSUME Invariant, Abort, reported' \in SUBSET Config, faults' \in Nat,
         UNCHANGED <<assigned, assignments, containers, local, apps, frozen>>
  PROVE  Invariant'
<1>1. SurroundingsTyped'
  BY DEF Invariant, TypeOK, SurroundingsTyped
<1>2. ContainersAreSound' /\ VectorIsSound'
  BY DEF Invariant, ContainersAreSound, VectorIsSound
<1>3. QED
  BY <1>1, <1>2, AbortInvariant

(* What a pull stores, and what a prune leaves, is still what the          *)
(* containers have.                                                        *)
LEMMA PulledTyped ==
  ASSUME Invariant, NEW R, NEW storage, PulledInto(R, storage), local' = storage,
         containers' = containers
  PROVE  local' \in [References -> Digest \cup {NoDigest}] /\ ContainersAreSound'
<1>1. local' \in [References -> Digest \cup {NoDigest}]
  BY DEF PulledInto
<1>2. ASSUME NEW c \in containers PROVE local'[Reference[c.config]] = c.digest
  <2>1. c.config \in Config /\ c.digest \in Digest
    BY DEF Invariant, TypeOK, Container
  <2>2. Reference[c.config] \in References
    BY <2>1 DEF References
  <2>3. local[Reference[c.config]] = c.digest /\ c.digest # NoDigest
    BY <2>1, DigestAssumption DEF Invariant, ContainersAreSound
  <2>4. QED
    BY <2>2, <2>3 DEF PulledInto
<1>3. QED
  BY <1>1, <1>2 DEF Invariant, ContainersAreSound

LEMMA PullFailsInvariant ==
  ASSUME Invariant, PullFails
  PROVE  Invariant'
<1>1. local' \in [References -> Digest \cup {NoDigest}] /\ ContainersAreSound'
  BY PulledTyped DEF PullFails
<1>2. faults' \in Nat
  BY FaultTyped DEF Invariant, PullFails
<1>3. SurroundingsTyped'
  BY <1>1, <1>2 DEF Invariant, TypeOK, SurroundingsTyped, PullFails, cloudVars
<1>4. VectorIsSound'
  BY DEF Invariant, VectorIsSound, PullFails
<1>5. QED
  BY <1>1, <1>3, <1>4, AbortInvariant DEF PullFails

LEMMA PruneInvariant ==
  ASSUME Invariant, Prune
  PROVE  Invariant'
<1>1. /\ containers' = containers /\ apps' = apps
      /\ local' = [r \in References |->
           IF \E c \in containers : Reference[c.config] = r THEN local[r] ELSE NoDigest]
  BY DEF Prune
<1>2. ASSUME NEW c \in containers PROVE local'[Reference[c.config]] = c.digest
  <2>1. Reference[c.config] \in References
    BY DEF Invariant, TypeOK, Container, References
  <2>2. QED
    BY <1>1, <2>1 DEF Invariant, ContainersAreSound
<1>3. ContainersAreSound' /\ VectorIsSound'
  BY <1>1, <1>2 DEF Invariant, ContainersAreSound, VectorIsSound
<1>4. SurroundingsTyped'
  BY <1>1 DEF Invariant, TypeOK, SurroundingsTyped, Prune, cloudVars
<1>5. QED
  BY <1>3, <1>4, AbortInvariant DEF Prune

-----------------------------------------------------------------------------
(* The start of a merge.                                                   *)

Images == {[config |-> c, digest |-> local'[Reference[c]]] : c \in want}

LEMMA ImagesTyped ==
  ASSUME Invariant, NEW storage, PulledInto({Reference[c] : c \in want}, storage),
         local' = storage
  PROVE  Images \in SUBSET Container /\ IsFiniteSet(Images)
<1>1. ASSUME NEW c \in want PROVE [config |-> c, digest |-> local'[Reference[c]]] \in Container
  <2>1. c \in Config /\ Reference[c] \in References
    BY DEF Invariant, TypeOK, References
  <2>2. local'[Reference[c]] \in Digest
    <3>1. local'[Reference[c]] \in Digest \cup {NoDigest}
      BY <2>1 DEF PulledInto
    <3>2. local'[Reference[c]] # NoDigest
      BY <2>1 DEF PulledInto
    <3>3. QED
      BY <3>1, <3>2
  <2>3. QED
    BY <2>1, <2>2 DEF Container
<1>2. IsFiniteSet(want)
  BY ConfigAssumption, FS_Subset DEF Invariant, TypeOK
<1>3. IsFiniteSet(Images)
  <2> DEFINE f == [c \in want |-> [config |-> c, digest |-> local'[Reference[c]]]]
  <2>1. f \in Surjection(want, Images)
    BY DEF Surjection, Images
  <2>2. QED
    BY <1>2, <2>1, FS_Surjection
<1>4. QED
  BY <1>1, <1>3 DEF Images

LEMMA PullTargets ==
  ASSUME Invariant, Pull
  PROVE  /\ target' \in Seq(Container)
         /\ \A k \in 1..Len(target') : target'[k] \in Images
         /\ \A k, l \in 1..Len(target') : target'[k] = target'[l] => k = l
         /\ \A x \in Images : \E k \in 1..Len(target') : target'[k] = x
         /\ \A k, l \in 1..Len(target') :
              k < l => Reference[target'[k].config] >= Reference[target'[l].config]
         /\ \A k \in 1..Len(target') : target'[k].config \in Config
<1>1. Images \in SUBSET Container /\ IsFiniteSet(Images)
  BY ImagesTyped DEF Pull
<1>a. PICK a \in Arrangements(Images) : \E s \in Sorted(a) : target' = Backwards(s)
  BY DEF Pull, Images
<1>2. PICK s \in Sorted(a) : target' = Backwards(s)
  BY <1>a
<1>3. a \in Seq(Container) /\ Range(a) = Images
  BY <1>1, ArrangementOf
<1>4. /\ s \in Seq(Container) /\ Range(s) = Images
      /\ \A i, j \in 1..Len(s) : s[i] = s[j] => i = j
      /\ \A i, j \in 1..Len(s) : i < j => Reference[s[i].config] <= Reference[s[j].config]
  BY <1>1, <1>3, SortedOf
<1>5. /\ target' \in Seq(Container) /\ Len(target') = Len(s) /\ Len(s) \in Nat
      /\ \A i \in 1..Len(s) :
           Len(s) + 1 - i \in 1..Len(s) /\ target'[i] = s[Len(s) + 1 - i]
  BY <1>2, <1>4, BackwardsOf, RangeOf
<1>6. \A i \in 1..Len(s) : s[i].config \in Config
  <2>1. \A i \in 1..Len(s) : s[i] \in Container
    BY <1>4, RangeOf
  <2>2. QED
    BY <2>1 DEF Container
<1>7. \A k \in 1..Len(target') : target'[k] \in Images /\ target'[k].config \in Config
  BY <1>4, <1>5, <1>6, RangeOf
<1>8. ASSUME NEW k \in 1..Len(target'), NEW l \in 1..Len(target'), target'[k] = target'[l]
      PROVE  k = l
  <2>1. s[Len(s) + 1 - k] = s[Len(s) + 1 - l]
    BY <1>5, <1>8
  <2>2. Len(s) + 1 - k = Len(s) + 1 - l
    BY <1>4, <1>5, <2>1
  <2>3. QED
    BY <1>5, <2>2
<1>9. ASSUME NEW x \in Images PROVE \E k \in 1..Len(target') : target'[k] = x
  <2>1. PICK i \in 1..Len(s) : s[i] = x
    BY <1>4, RangeOf
  <2> DEFINE k == Len(s) + 1 - i
  <2>2. k \in 1..Len(s) /\ Len(s) + 1 - k = i
    BY <1>5
  <2>3. target'[k] = x
    BY <1>5, <2>1, <2>2
  <2>4. QED
    BY <1>5, <2>2, <2>3
<1>10. ASSUME NEW k \in 1..Len(target'), NEW l \in 1..Len(target'), k < l
       PROVE  Reference[target'[k].config] >= Reference[target'[l].config]
  <2> DEFINE i == Len(s) + 1 - l
             j == Len(s) + 1 - k
  <2>1. i \in 1..Len(s) /\ j \in 1..Len(s) /\ i < j /\ target'[l] = s[i] /\ target'[k] = s[j]
    BY <1>5, <1>10
  <2> HIDE DEF i, j
  <2>2. Reference[s[i].config] <= Reference[s[j].config]
    BY <1>4, <2>1
  <2>3. Reference[s[i].config] \in Nat /\ Reference[s[j].config] \in Nat
    BY <1>6, <2>1, ConfigAssumption
  <2>4. QED
    BY <2>1, <2>2, <2>3
<1>11. QED
  BY <1>5, <1>7, <1>8, <1>9, <1>10

LEMMA PullInvariant ==
  ASSUME Invariant, Pull
  PROVE  Invariant'
<1>1. /\ local' \in [References -> Digest \cup {NoDigest}] /\ ContainersAreSound'
      /\ containers' = containers /\ want' = want /\ pc' = "merge"
      /\ UNCHANGED <<cloudVars, frozen, faults>>
  BY PulledTyped DEF Pull
<1>2. PICK s \in Sorted(apps) : apps' = s /\ current' = Entries(s)
  BY DEF Pull
<1>3. apps \in Seq(Container) /\ Range(apps) \subseteq containers /\ IsFiniteSet(containers)
  <2>1. apps \in Seq(Container)
    BY DEF Invariant, TypeOK
  <2>2. \A i \in 1..Len(apps) : apps[i] \in containers
    BY DEF Invariant, VectorIsSound
  <2>3. QED
    BY <2>1, <2>2, RangeOf DEF Invariant, ContainersAreSound
<1>4. /\ apps' \in Seq(Container) /\ Range(apps') = Range(apps)
      /\ \A i, j \in 1..Len(apps') : apps'[i] = apps'[j] => i = j
  BY <1>2, <1>3, FS_Subset, SortedOf
<1>5. VectorIsSound'
  <2>1. \A i \in 1..Len(apps') : apps'[i] \in containers'
    BY <1>1, <1>3, <1>4, RangeOf
  <2>2. QED
    BY <1>4, <2>1 DEF VectorIsSound
<1>6. /\ current' \in Seq(Entry) /\ Len(current') = Len(apps') /\ Len(apps') \in Nat
      /\ \A i \in 1..Len(apps') :
           /\ current'[i].index = Len(apps') + 1 - i
           /\ Len(apps') + 1 - i \in 1..Len(apps')
           /\ current'[i].app = apps'[Len(apps') + 1 - i]
  BY <1>2, <1>4, EntriesOf, RangeOf
<1>7. CursorIsSound'
  BY <1>6 DEF CursorIsSound
<1>8. /\ target' \in Seq(Container)
      /\ \A k \in 1..Len(target') : target'[k] \in Images
      /\ \A k, l \in 1..Len(target') : target'[k] = target'[l] => k = l
      /\ \A x \in Images : \E k \in 1..Len(target') : target'[k] = x
  BY PullTargets
<1>9. /\ \A x \in Images : x.config \in want /\ x.digest = local'[Reference[x.config]]
      /\ \A x, y \in Images : x.config = y.config => x = y
      /\ \A c \in want : \E x \in Images : x.config = c
  <2>1. \A x \in Images : x.config \in want /\ x = [config |-> x.config, digest |-> local'[Reference[x.config]]]
    BY DEF Images
  <2>2. \A c \in want : [config |-> c, digest |-> local'[Reference[c]]] \in Images
    BY DEF Images
  <2>3. ASSUME NEW x \in Images PROVE x.digest = local'[Reference[x.config]]
    BY DEF Images
  <2>4. ASSUME NEW x \in Images, NEW y \in Images, x.config = y.config PROVE x = y
    BY <2>1, <2>4
  <2>5. ASSUME NEW c \in want PROVE \E x \in Images : x.config = c
    BY <2>2
  <2>6. QED
    BY <2>1, <2>3, <2>4, <2>5
<1>10. TargetIsSound'
  <2>1. want' \in Assignments
    BY <1>1 DEF Invariant, TargetIsSound
  <2>2. \A k \in 1..Len(target') :
          target'[k].config \in want' /\ local'[Reference[target'[k].config]] = target'[k].digest
    BY <1>1, <1>8, <1>9
  <2>3. \A k, l \in 1..Len(target') : target'[k].config = target'[l].config => k = l
    BY <1>8, <1>9
  <2>4. QED
    BY <2>1, <2>2, <2>3 DEF TargetIsSound, Assignments
<1>11. MergeIsSound'
  <2>1. ASSUME NEW i \in 1..Len(apps') PROVE \E k \in 1..Len(current') : current'[k].index = i
    <3> DEFINE k == Len(apps') + 1 - i
    <3>1. k \in 1..Len(apps') /\ Len(apps') + 1 - k = i
      BY <1>6
    <3>2. QED
      BY <1>6, <3>1
  <2>2. ASSUME NEW c \in want' PROVE \E k \in 1..Len(target') : target'[k].config = c
    <3>1. PICK x \in Images : x.config = c
      BY <1>1, <1>9
    <3>2. QED
      BY <1>8, <3>1
  <2>3. QED
    BY <2>1, <2>2 DEF MergeIsSound, IsMerged, IsAhead
<1>12. TypeOK' /\ assigned' \in Assignments
  <2>1. /\ assigned' \in SUBSET Config /\ reported' \in SUBSET Config /\ frozen' \in BOOLEAN
        /\ containers' \in SUBSET Container /\ want' \in SUBSET Config
        /\ faults' \in Nat /\ assignments' \in Nat /\ assigned' \in Assignments
    BY <1>1 DEF Invariant, TypeOK, cloudVars
  <2>2. QED
    BY <1>1, <1>4, <1>6, <1>8, <2>1 DEF TypeOK, PC
<1>13. QED
  BY <1>1, <1>5, <1>7, <1>10, <1>11, <1>12 DEF Invariant

-----------------------------------------------------------------------------
(* Steps of the merge.                                                     *)

(* The head of the images leaves them: it is the only one no longer ahead. *)
LEMMA TargetAdvances ==
  ASSUME Invariant, target # <<>>, target' = Tail(target), want' = want, local' = local
  PROVE  /\ target' \in Seq(Container) /\ TargetIsSound'
         /\ Head(target) = target[1] /\ Head(target) \in Container
         /\ Head(target).config \in want
         /\ local[Reference[Head(target).config]] = Head(target).digest
         /\ \A c : IsAhead(c)' <=> IsAhead(c) /\ c # Head(target).config
<1>1. target \in Seq(Container)
  BY DEF Invariant, TypeOK
<1>2. /\ Head(target) \in Container /\ Head(target) = target[1]
      /\ Len(target) \in Nat /\ 1 <= Len(target)
      /\ target' \in Seq(Container) /\ Len(target') = Len(target) - 1
      /\ \A i \in 1..Len(target') : i + 1 \in 1..Len(target) /\ target'[i] = target[i + 1]
  BY <1>1, TailOf
<1>3. /\ want \in Assignments
      /\ \A k \in 1..Len(target) :
           target[k].config \in want /\ local[Reference[target[k].config]] = target[k].digest
      /\ \A k, l \in 1..Len(target) : target[k].config = target[l].config => k = l
  BY DEF Invariant, TargetIsSound
<1>4. TargetIsSound'
  <2>1. ASSUME NEW k \in 1..Len(target'), NEW l \in 1..Len(target'),
               target'[k].config = target'[l].config
        PROVE  k = l
    <3>1. k + 1 = l + 1
      BY <1>2, <1>3, <2>1
    <3>2. QED
      BY <3>1
  <2>2. \A k \in 1..Len(target') :
          target'[k].config \in want /\ local[Reference[target'[k].config]] = target'[k].digest
    BY <1>2, <1>3
  <2>3. QED
    BY <1>3, <2>1, <2>2 DEF TargetIsSound, Assignments
<1>5. 1 \in 1..Len(target)
  BY <1>2
<1>6. ASSUME NEW c PROVE IsAhead(c)' <=> IsAhead(c) /\ c # Head(target).config
  <2>1. ASSUME NEW k \in 1..Len(target'), target'[k].config = c
        PROVE  IsAhead(c) /\ c # Head(target).config
    <3>1. k + 1 \in 1..Len(target) /\ target[k + 1].config = c /\ k + 1 # 1
      BY <1>2, <2>1
    <3>2. c # target[1].config
      BY <1>3, <1>5, <3>1
    <3>3. QED
      BY <1>2, <3>1, <3>2 DEF IsAhead
  <2>2. ASSUME NEW k \in 1..Len(target), target[k].config = c, c # Head(target).config
        PROVE  \E l \in 1..Len(target') : target'[l].config = c
    <3>1. k # 1
      BY <1>2, <2>2
    <3>2. k - 1 \in 1..Len(target') /\ (k - 1) + 1 = k
      BY <1>2, <3>1
    <3>3. target'[k - 1].config = c
      BY <1>2, <2>2, <3>2
    <3>4. QED
      BY <3>2, <3>3
  <2>3. QED
    BY <2>1, <2>2 DEF IsAhead
<1>7. QED
  BY <1>2, <1>3, <1>4, <1>5, <1>6

(* The head of the entries leaves them: it is the only one newly merged,   *)
(* and it points further to the end of the vector than all that remain.    *)
LEMMA CurrentAdvances ==
  ASSUME Invariant, current # <<>>, current' = Tail(current)
  PROVE  /\ current' \in Seq(Entry)
         /\ Head(current) = current[1] /\ Len(apps) \in Nat
         /\ Head(current).index \in 1..Len(apps)
         /\ apps[Head(current).index] = Head(current).app
         /\ \A k \in 1..Len(current') :
              /\ current'[k].index \in 1..Len(apps)
              /\ apps[current'[k].index] = current'[k].app
              /\ current'[k].index < Head(current).index
         /\ \A k, l \in 1..Len(current') : k < l => current'[k].index > current'[l].index
         /\ \A i : IsMerged(i)' <=> IsMerged(i) \/ i = Head(current).index
<1>1. current \in Seq(Entry) /\ Len(apps) \in Nat
  BY LenProperties DEF Invariant, TypeOK
<1>2. /\ Head(current) = current[1]
      /\ Len(current) \in Nat /\ 1 <= Len(current)
      /\ current' \in Seq(Entry) /\ Len(current') = Len(current) - 1
      /\ \A i \in 1..Len(current') : i + 1 \in 1..Len(current) /\ current'[i] = current[i + 1]
  BY <1>1, TailOf
<1>3. /\ \A k \in 1..Len(current) :
           current[k].index \in 1..Len(apps) /\ apps[current[k].index] = current[k].app
      /\ \A k, l \in 1..Len(current) : k < l => current[k].index > current[l].index
  BY DEF Invariant, CursorIsSound
<1>4. 1 \in 1..Len(current)
  BY <1>2
<1>5. ASSUME NEW k \in 1..Len(current')
      PROVE  /\ current'[k].index \in 1..Len(apps)
             /\ apps[current'[k].index] = current'[k].app
             /\ current'[k].index < Head(current).index
  <2>1. k + 1 \in 1..Len(current) /\ 1 < k + 1 /\ current'[k] = current[k + 1]
    BY <1>2
  <2>2. current[1].index > current[k + 1].index
    BY <1>3, <1>4, <2>1
  <2>3. current[1].index \in 1..Len(apps) /\ current[k + 1].index \in 1..Len(apps)
    BY <1>3, <1>4, <2>1
  <2>4. QED
    BY <1>1, <1>2, <1>3, <2>1, <2>2, <2>3
<1>6. ASSUME NEW k \in 1..Len(current'), NEW l \in 1..Len(current'), k < l
      PROVE  current'[k].index > current'[l].index
  <2>1. k + 1 < l + 1 /\ k + 1 \in 1..Len(current) /\ l + 1 \in 1..Len(current)
    BY <1>2, <1>6
  <2>2. QED
    BY <1>2, <1>3, <2>1
<1>7. ASSUME NEW i PROVE IsMerged(i)' <=> IsMerged(i) \/ i = Head(current).index
  <2>1. ASSUME NEW k \in 1..Len(current), current[k].index = i, i # Head(current).index
        PROVE  \E l \in 1..Len(current') : current'[l].index = i
    <3>1. k # 1
      BY <1>2, <2>1
    <3>2. k - 1 \in 1..Len(current') /\ (k - 1) + 1 = k
      BY <1>2, <3>1
    <3>3. current'[k - 1].index = i
      BY <1>2, <2>1, <3>2
    <3>4. QED
      BY <3>2, <3>3
  <2>2. ASSUME NEW k \in 1..Len(current'), current'[k].index = i
        PROVE  i # Head(current).index /\ \E l \in 1..Len(current) : current[l].index = i
    <3>1. i # Head(current).index
      BY <1>1, <1>3, <1>4, <1>2, <1>5, <2>2
    <3>2. QED
      BY <1>2, <2>2, <3>1
  <2>3. QED
    BY <2>1, <2>2 DEF IsMerged
<1>8. QED
  BY <1>1, <1>2, <1>3, <1>4, <1>5, <1>6, <1>7

LEMMA KeepInvariant ==
  ASSUME Invariant, Keep
  PROVE  Invariant'
<1>1. /\ pc = "merge" /\ current # <<>> /\ target # <<>>
      /\ Head(current).app = Head(target)
      /\ current' = Tail(current) /\ target' = Tail(target)
      /\ UNCHANGED <<pc, want, cloudVars, podmanVars, apps, frozen, faults>>
  BY DEF Keep, SameNext, OutOfDate
<1>2. /\ target' \in Seq(Container) /\ TargetIsSound'
      /\ Head(target).config \in want
      /\ \A c : IsAhead(c)' <=> IsAhead(c) /\ c # Head(target).config
  BY <1>1, TargetAdvances DEF podmanVars
<1> DEFINE i == Head(current).index
<1>3. /\ current' \in Seq(Entry) /\ Len(apps) \in Nat
      /\ i \in 1..Len(apps) /\ apps[i] = Head(target)
      /\ \A k \in 1..Len(current') :
           current'[k].index \in 1..Len(apps) /\ apps[current'[k].index] = current'[k].app
      /\ \A k, l \in 1..Len(current') : k < l => current'[k].index > current'[l].index
      /\ \A j : IsMerged(j)' <=> IsMerged(j) \/ j = i
  BY <1>1, CurrentAdvances
<1> HIDE DEF i
<1>4. /\ \A j \in 1..Len(apps) : IsMerged(j) => apps[j].config \in want /\ ~IsAhead(apps[j].config)
      /\ \A c \in want : IsAhead(c) \/ \E j \in 1..Len(apps) : IsMerged(j) /\ apps[j].config = c
  BY <1>1 DEF Invariant, MergeIsSound
<1>5. MergeIsSound'
  <2>1. ASSUME NEW j \in 1..Len(apps), IsMerged(j)'
        PROVE  apps[j].config \in want /\ ~IsAhead(apps[j].config)'
    <3>1. IsMerged(j) \/ j = i
      BY <1>3, <2>1
    <3>2. apps' = apps
      BY <1>1
    <3>3. apps[j].config \in want
      BY <1>2, <1>3, <1>4, <3>1
    <3>4. ~IsAhead(apps[j].config) \/ apps[j].config = Head(target).config
      BY <1>3, <1>4, <3>1
    <3>5. QED
      BY <1>2, <3>2, <3>3, <3>4
  <2>2. ASSUME NEW c \in want
        PROVE  IsAhead(c)' \/ \E j \in 1..Len(apps) : IsMerged(j)' /\ apps[j].config = c
    BY <1>2, <1>3, <1>4
  <2>3. apps' = apps /\ want' = want
    BY <1>1
  <2>4. QED
    BY <2>1, <2>2, <2>3 DEF MergeIsSound
<1>6. CursorIsSound'
  BY <1>1, <1>3 DEF CursorIsSound
<1>7. ContainersAreSound' /\ VectorIsSound'
  BY <1>1 DEF Invariant, ContainersAreSound, VectorIsSound, podmanVars
<1>8. TypeOK' /\ assigned' \in Assignments
  BY <1>1, <1>2, <1>3 DEF Invariant, TypeOK, cloudVars, podmanVars
<1>9. QED
  BY <1>2, <1>5, <1>6, <1>7, <1>8 DEF Invariant

LEMMA RemoveHeadInvariant ==
  ASSUME Invariant, pc = "merge", current # <<>>,
         NEW next \in {"merge", "launch"}, next = "launch" => target # <<>>,
         RemoveHead(next)
  PROVE  Invariant'
<1>i. PICK i : i = Head(current).index
  OBVIOUS
<1>n. PICK n : n = Len(apps)
  OBVIOUS
<1>1. /\ apps' = SwapRemove(apps, i)
      /\ containers' = containers \/ containers' = containers \ {apps[i]}
      /\ current' = Tail(current)
      /\ pc' = next
      /\ UNCHANGED <<want, target, cloudVars, local, frozen>>
  BY <1>i DEF RemoveHead
<1>2. /\ current' \in Seq(Entry) /\ Len(apps) \in Nat
      /\ i \in 1..Len(apps)
      /\ \A k \in 1..Len(current') :
           /\ current'[k].index \in 1..Len(apps)
           /\ apps[current'[k].index] = current'[k].app
           /\ current'[k].index < i
      /\ \A k, l \in 1..Len(current') : k < l => current'[k].index > current'[l].index
      /\ \A j : IsMerged(j)' <=> IsMerged(j) \/ j = i
  BY <1>1, <1>i, CurrentAdvances
<1>3. faults' \in Nat
  BY FaultTyped DEF RemoveHead, Invariant, TypeOK
<1> DEFINE old(j) == IF j = i THEN n ELSE j
<1>4. /\ apps' \in Seq(Container) /\ Len(apps') = n - 1
      /\ \A j \in 1..(n - 1) : apps'[j] = IF j = i THEN apps[n] ELSE apps[j]
  <2>1. apps \in Seq(Container)
    BY DEF Invariant, TypeOK
  <2>2. i \in 1..Len(apps) /\ apps' = SwapRemove(apps, i)
    BY <1>1, <1>2
  <2>3. /\ SwapRemove(apps, i) \in Seq(Container) /\ Len(SwapRemove(apps, i)) = Len(apps) - 1
        /\ \A j \in 1..(Len(apps) - 1) :
             SwapRemove(apps, i)[j] = IF j = i THEN apps[Len(apps)] ELSE apps[j]
    BY <2>1, <2>2, SwapRemoveOf
  <2>4. QED
    BY <1>n, <2>2, <2>3
<1>5. n \in Nat /\ i \in 1..n
  BY <1>2, <1>n
<1>6. \A j \in 1..(n - 1) : apps'[j] = apps[old(j)] /\ old(j) \in 1..n /\ old(j) # i
  BY <1>4, <1>5
<1>7. \A j, l \in 1..(n - 1) : old(j) = old(l) => j = l
  BY <1>5
<1>8. \A j \in 1..n : j # i => \E l \in 1..(n - 1) : old(l) = j
  <2>1. ASSUME NEW j \in 1..n, j # i, j = n PROVE i \in 1..(n - 1) /\ old(i) = j
    BY <1>5, <2>1
  <2>2. ASSUME NEW j \in 1..n, j # i, j # n PROVE j \in 1..(n - 1) /\ old(j) = j
    BY <1>5, <2>2
  <2>3. QED
    BY <2>1, <2>2
(* A place of the new vector is merged when its application was.           *)
<1>9. \A j \in 1..(n - 1) : IsMerged(j)' <=> IsMerged(old(j))
  <2>1. ASSUME NEW j \in 1..(n - 1), j # i PROVE IsMerged(j)' <=> IsMerged(old(j))
    BY <1>2, <2>1
  <2>2. ASSUME i \in 1..(n - 1) PROVE IsMerged(i)' /\ IsMerged(n)
    <3>1. \A k \in 1..Len(current') : current'[k].index # n
      BY <1>2, <1>5, <1>n
    <3>2. IsMerged(n)' /\ n # i
      BY <1>5, <2>2, <3>1 DEF IsMerged
    <3>3. QED
      BY <1>2, <3>2
  <2>3. QED
    BY <2>1, <2>2
<1> HIDE DEF old
<1>10. /\ \A j \in 1..n : apps[j] \in containers
       /\ \A j, l \in 1..n : apps[j] = apps[l] => j = l
  BY <1>n DEF Invariant, VectorIsSound
<1>11. VectorIsSound'
  <2>1. ASSUME NEW j \in 1..(n - 1) PROVE apps'[j] \in containers'
    <3>1. apps'[j] \in containers /\ apps'[j] # apps[i]
      BY <1>5, <1>6, <1>10
    <3>2. QED
      BY <1>1, <3>1
  <2>2. \A j, l \in 1..(n - 1) : apps'[j] = apps'[l] => j = l
    BY <1>6, <1>7, <1>10
  <2>3. QED
    BY <1>4, <2>1, <2>2 DEF VectorIsSound
<1>12. CursorIsSound'
  <2>1. ASSUME NEW k \in 1..Len(current')
        PROVE  current'[k].index \in 1..(n - 1) /\ apps'[current'[k].index] = current'[k].app
    <3> DEFINE m == current'[k].index
    <3>1. m \in 1..n /\ m < i /\ apps[m] = current'[k].app
      BY <1>2, <1>n
    <3> HIDE DEF m
    <3>2. m \in 1..(n - 1) /\ m # i
      BY <1>5, <3>1
    <3>3. apps'[m] = apps[m]
      BY <1>4, <3>2
    <3>4. QED
      BY <3>1, <3>2, <3>3 DEF m
  <2>2. QED
    BY <1>2, <1>4, <2>1 DEF CursorIsSound
<1>13. TargetIsSound' /\ \A c : IsAhead(c)' <=> IsAhead(c)
  BY <1>1 DEF Invariant, TargetIsSound, IsAhead
<1>14. /\ \A j \in 1..n : IsMerged(j) => apps[j].config \in want /\ ~IsAhead(apps[j].config)
       /\ \A c \in want : IsAhead(c) \/ \E j \in 1..n : IsMerged(j) /\ apps[j].config = c
  BY <1>n DEF Invariant, MergeIsSound
<1>15. MergeIsSound'
  <2>1. ASSUME NEW j \in 1..(n - 1), IsMerged(j)'
        PROVE  apps'[j].config \in want /\ ~IsAhead(apps'[j].config)
    BY <1>6, <1>9, <1>14, <2>1
  <2>2. ASSUME NEW c \in want, ~IsAhead(c)
        PROVE  \E j \in 1..(n - 1) : IsMerged(j)' /\ apps'[j].config = c
    <3>1. PICK m \in 1..n : IsMerged(m) /\ apps[m].config = c
      BY <1>14, <2>2
    <3>2. ~IsMerged(i)
      <4>1. current \in Seq(Entry)
        BY DEF Invariant, TypeOK
      <4>2. 1 \in 1..Len(current) /\ current[1].index = i
        BY <1>i, <4>1, TailOf
      <4>3. QED
        BY <4>2 DEF IsMerged
    <3>3. PICK j \in 1..(n - 1) : old(j) = m
      BY <1>8, <3>1, <3>2
    <3>4. QED
      BY <1>6, <1>9, <3>1, <3>3
  <2>3. want' = want
    BY <1>1
  <2>4. \A c : IsAhead(c)' <=> IsAhead(c)
    BY <1>13
  <2>5. QED
    BY <1>4, <1>13, <2>1, <2>2, <2>3 DEF MergeIsSound
<1>16. ContainersAreSound'
  <2>1. containers' \subseteq containers /\ local' = local
    BY <1>1
  <2>2. QED
    BY <2>1, FS_Subset DEF Invariant, ContainersAreSound
<1>17. TypeOK' /\ assigned' \in Assignments
  BY <1>1, <1>2, <1>3, <1>4 DEF Invariant, TypeOK, cloudVars, PC
<1>18. QED
  BY <1>11, <1>12, <1>13, <1>15, <1>16, <1>17 DEF Invariant

LEMMA LaunchHeadInvariant ==
  ASSUME Invariant, pc \in {"merge", "launch"}, target # <<>>, LaunchHead
  PROVE  Invariant'
<1> DEFINE new == Head(target)
<1>1. /\ ~NameTaken(new)
      /\ containers' = containers \cup {new}
      /\ apps' = Append(apps, new)
      /\ target' = Tail(target)
      /\ pc' = "merge"
      /\ UNCHANGED <<want, current, cloudVars, local, frozen, faults>>
  BY DEF LaunchHead
<1>2. /\ target' \in Seq(Container) /\ TargetIsSound'
      /\ new \in Container /\ new.config \in want
      /\ local[Reference[new.config]] = new.digest
      /\ \A c : IsAhead(c)' <=> IsAhead(c) /\ c # new.config
  BY <1>1, TargetAdvances
<1> HIDE DEF new
<1>3. apps \in Seq(Container) /\ Len(apps) \in Nat
  BY LenProperties DEF Invariant, TypeOK
<1> DEFINE n == Len(apps)
<1>4. /\ apps' \in Seq(Container) /\ Len(apps') = n + 1 /\ apps'[n + 1] = new
      /\ \A j \in 1..n : apps'[j] = apps[j]
  BY <1>1, <1>2, <1>3
<1>5. n \in Nat
  BY <1>3
<1>6. /\ \A j \in 1..n : apps[j] \in containers
      /\ \A j, l \in 1..n : apps[j] = apps[l] => j = l
  BY DEF Invariant, VectorIsSound
<1>7. /\ \A k \in 1..Len(current) :
           current[k].index \in 1..n /\ apps[current[k].index] = current[k].app
      /\ \A k, l \in 1..Len(current) : k < l => current[k].index > current[l].index
  BY DEF Invariant, CursorIsSound
<1>8. /\ \A j \in 1..n : IsMerged(j) => apps[j].config \in want /\ ~IsAhead(apps[j].config)
      /\ \A c \in want : IsAhead(c) \/ \E j \in 1..n : IsMerged(j) /\ apps[j].config = c
  BY DEF Invariant, MergeIsSound
<1> HIDE DEF n
<1>9. \A c \in containers : ContainerName[c.config] # ContainerName[new.config]
  BY <1>1 DEF NameTaken
<1>10. ContainersAreSound'
  <2>1. IsFiniteSet(containers')
    BY <1>1, FS_AddElement DEF Invariant, ContainersAreSound
  <2>2. \A c \in containers' : local'[Reference[c.config]] = c.digest
    BY <1>1, <1>2 DEF Invariant, ContainersAreSound
  <2>3. \A c, d \in containers' : ContainerName[c.config] = ContainerName[d.config] => c = d
    BY <1>1, <1>9 DEF Invariant, ContainersAreSound
  <2>4. QED
    BY <2>1, <2>2, <2>3 DEF ContainersAreSound
<1>11. VectorIsSound'
  <2>1. \A j \in 1..(n + 1) : j \in 1..n \/ j = n + 1
    BY <1>5
  <2>2. new \notin containers
    BY <1>9
  <2>3. \A j \in 1..(n + 1) : apps'[j] \in containers'
    BY <1>1, <1>4, <1>6, <2>1
  <2>4. \A j, l \in 1..(n + 1) : apps'[j] = apps'[l] => j = l
    BY <1>4, <1>6, <2>1, <2>2
  <2>5. QED
    BY <1>4, <2>3, <2>4 DEF VectorIsSound
<1>12. CursorIsSound'
  <2>1. ASSUME NEW k \in 1..Len(current)
        PROVE  current[k].index \in 1..(n + 1) /\ apps'[current[k].index] = current[k].app
    <3>1. current[k].index \in 1..n /\ apps[current[k].index] = current[k].app
      BY <1>7
    <3>2. QED
      BY <1>4, <1>5, <3>1
  <2>2. current' = current
    BY <1>1
  <2>3. QED
    BY <1>4, <1>7, <2>1, <2>2 DEF CursorIsSound
<1>13. MergeIsSound'
  <2>1. \A j : IsMerged(j)' <=> IsMerged(j)
    BY <1>1 DEF IsMerged
  <2>2. IsMerged(n + 1)
    BY <1>5, <1>7 DEF IsMerged
  <2>3. ASSUME NEW j \in 1..(n + 1), IsMerged(j)
        PROVE  apps'[j].config \in want /\ (\A c : c = apps'[j].config => ~IsAhead(c)')
    <3>1. CASE j \in 1..n
      BY <1>2, <1>4, <1>8, <2>3, <3>1
    <3>2. CASE j = n + 1
      BY <1>2, <1>4, <3>2
    <3>3. QED
      BY <1>5, <3>1, <3>2
  <2>4. ASSUME NEW c \in want, ~IsAhead(c)'
        PROVE  \E j \in 1..(n + 1) : IsMerged(j) /\ apps'[j].config = c
    <3>1. CASE c = new.config
      <4>1. n + 1 \in 1..(n + 1)
        BY <1>5
      <4>2. QED
        BY <1>4, <2>2, <3>1, <4>1
    <3>2. CASE c # new.config
      <4>1. PICK j \in 1..n : IsMerged(j) /\ apps[j].config = c
        BY <1>2, <1>8, <2>4, <3>2
      <4>2. j \in 1..(n + 1)
        BY <1>5
      <4>3. QED
        BY <1>4, <4>1, <4>2
    <3>3. QED
      BY <3>1, <3>2
  <2>5. want' = want
    BY <1>1
  <2>6. QED
    BY <1>4, <2>1, <2>3, <2>4, <2>5 DEF MergeIsSound
<1>14. TypeOK' /\ assigned' \in Assignments
  BY <1>1, <1>2, <1>4 DEF Invariant, TypeOK, cloudVars, PC
<1>15. QED
  BY <1>2, <1>10, <1>11, <1>12, <1>13, <1>14 DEF Invariant

-----------------------------------------------------------------------------
(* The remaining steps.                                                    *)

(* Nothing is being merged, and nothing the invariant relates moves.       *)
LEMMA QuietInvariant ==
  ASSUME Invariant, UNCHANGED <<current, target, podmanVars, apps>>,
         (current = <<>> /\ target = <<>>) \/ UNCHANGED <<pc, want>>,
         pc' \in {"idle", "fetch", "pull", "prune"} \/ UNCHANGED <<pc, want>>,
         pc' \in {"idle", "fetch"} => want' = {},
         want' \in Assignments, assigned' \in Assignments,
         reported' \in SUBSET Config, frozen' \in BOOLEAN,
         faults' \in Nat, assignments' \in Nat
  PROVE  Invariant'
<1>1. ContainersAreSound' /\ VectorIsSound' /\ CursorIsSound'
  BY DEF Invariant, ContainersAreSound, VectorIsSound, CursorIsSound, podmanVars
<1>2. TargetIsSound' /\ MergeIsSound'
  <2>1. CASE UNCHANGED <<pc, want>>
    <3>1. TargetIsSound'
      BY <2>1 DEF Invariant, TargetIsSound, podmanVars
    <3>2. MergeIsSound'
      BY <2>1 DEF Invariant, MergeIsSound, IsMerged, IsAhead
    <3>3. QED
      BY <3>1, <3>2
  <2>2. CASE current = <<>> /\ target = <<>> /\ pc' \in {"idle", "fetch", "pull", "prune"}
    <3>1. Len(target') = 0
      BY <2>2, EmptyList
    <3>2. TargetIsSound'
      BY <3>1 DEF TargetIsSound, Assignments
    <3>3. MergeIsSound'
      BY <2>2 DEF MergeIsSound
    <3>4. QED
      BY <3>2, <3>3
  <2>3. QED
    BY <2>1, <2>2
<1>3. TypeOK'
  <2>1. assigned' \in SUBSET Config /\ want' \in SUBSET Config
    BY DEF Assignments
  <2>2. QED
    BY <2>1 DEF Invariant, TypeOK, PC, podmanVars
<1>4. QED
  BY <1>1, <1>2, <1>3 DEF Invariant

LEMMA QuietTypes ==
  ASSUME Invariant
  PROVE  /\ want \in Assignments /\ assigned \in Assignments /\ {} \in Assignments
         /\ reported \in SUBSET Config /\ want \in SUBSET Config /\ frozen \in BOOLEAN
         /\ faults \in Nat /\ assignments \in Nat
         /\ pc \in {"idle", "fetch", "pull", "prune"} => current = <<>> /\ target = <<>>
BY DEF Invariant, TypeOK, TargetIsSound, Assignments, PC

LEMMA PassStepInvariant ==
  ASSUME Invariant, PassStep
  PROVE  Invariant'
<1>0. /\ want \in Assignments /\ assigned \in Assignments /\ {} \in Assignments
      /\ reported \in SUBSET Config /\ want \in SUBSET Config /\ frozen \in BOOLEAN
      /\ faults \in Nat /\ assignments \in Nat
      /\ pc \in {"idle", "fetch", "pull", "prune"} => current = <<>> /\ target = <<>>
      /\ pc \in {"idle", "fetch"} => want = {}
  BY QuietTypes DEF Invariant, TypeOK
<1>1. CASE Tick
  BY <1>0, <1>1, QuietInvariant DEF Tick, cloudVars
<1>2. CASE Fetch
  BY <1>0, <1>2, QuietInvariant DEF Fetch, cloudVars
<1>3. CASE Pull
  BY <1>3, PullInvariant
<1>4. CASE Keep
  BY <1>4, KeepInvariant
<1>5. CASE Create
  BY <1>5, LaunchHeadInvariant DEF Create, CreateNext
<1>6. CASE Remove
  BY <1>6, RemoveHeadInvariant DEF Remove, RemoveNext
<1>7. CASE UpdateRemove
  BY <1>7, RemoveHeadInvariant DEF UpdateRemove, SameNext
<1>8. CASE UpdateLaunch
  BY <1>8, LaunchHeadInvariant DEF UpdateLaunch, Invariant, TypeOK
<1>9. CASE CreateFails \/ UpdateLaunchFails
  <2>1. LaunchHeadFails
    BY <1>9 DEF CreateFails, UpdateLaunchFails
  <2>2. faults' \in Nat
    BY <1>0, <2>1, FaultTyped DEF LaunchHeadFails, Invariant
  <2>3. QED
    BY <1>0, <2>1, <2>2, PlainAbortInvariant DEF LaunchHeadFails, cloudVars, podmanVars
<1>10. CASE Report
  BY <1>0, <1>10, QuietInvariant DEF Report
<1>11. CASE Prune
  BY <1>11, PruneInvariant
<1>12. QED
  BY <1>1, <1>2, <1>3, <1>4, <1>5, <1>6, <1>7, <1>8, <1>9, <1>10, <1>11 DEF PassStep

LEMMA PassFailureInvariant ==
  ASSUME Invariant, PassFailure
  PROVE  Invariant'
<1>0. reported \in SUBSET Config
  BY QuietTypes
<1>1. CASE FetchFails
  BY <1>0, <1>1, FaultTyped, PlainAbortInvariant
  DEF FetchFails, Invariant, cloudVars, podmanVars
<1>2. CASE PullFails
  BY <1>2, PullFailsInvariant
<1>3. CASE ReportFails
  BY <1>0, <1>3, FaultTyped, PlainAbortInvariant
  DEF ReportFails, Invariant, cloudVars, podmanVars
<1>4. CASE PruneFails
  BY <1>0, <1>4, FaultTyped, PlainAbortInvariant
  DEF PruneFails, Invariant, cloudVars, podmanVars
<1>5. QED
  BY <1>1, <1>2, <1>3, <1>4 DEF PassFailure

LEMMA InitInvariant ==
  ASSUME Init
  PROVE  Invariant
<1>1. Len(<<>>) = 0 /\ <<>> \in Seq(Container) /\ <<>> \in Seq(Entry) /\ IsFiniteSet({})
  BY EmptyList, FS_EmptySet
<1>2. TypeOK /\ assigned \in Assignments
  BY <1>1 DEF Init, TypeOK, Assignments, PC
<1>3. ContainersAreSound
  BY <1>1 DEF Init, ContainersAreSound
<1>4. VectorIsSound /\ CursorIsSound
  BY <1>1 DEF Init, VectorIsSound, CursorIsSound
<1>5. TargetIsSound
  BY <1>1 DEF Init, TargetIsSound, Assignments
<1>6. MergeIsSound
  BY DEF Init, MergeIsSound
<1>7. QED
  BY <1>2, <1>3, <1>4, <1>5, <1>6 DEF Invariant

LEMMA NextInvariant ==
  ASSUME Invariant, [LoopNext]_vars
  PROVE  Invariant'
<1>0. /\ want \in Assignments /\ assigned \in Assignments
      /\ reported \in SUBSET Config /\ frozen \in BOOLEAN
      /\ faults \in Nat /\ assignments \in Nat
      /\ pc \in {"idle", "fetch"} => want = {}
  BY QuietTypes DEF Invariant, TypeOK
<1>1. CASE PassStep
  BY <1>1, PassStepInvariant
<1>2. CASE PassFailure
  BY <1>2, PassFailureInvariant
<1>3. CASE Restart
  BY <1>3, FaultTyped, StartInvariant DEF Restart, Invariant
<1>4. CASE RestartMisses
  <2>1. PICK c \in containers : StartAgent(containers \ {c})
    BY <1>4 DEF RestartMisses
  <2>2. faults' \in Nat
    BY <1>4, FaultTyped DEF RestartMisses, Invariant
  <2>3. QED
    BY <2>1, <2>2, StartInvariant
<1>5. CASE Freeze
  BY <1>0, <1>5, QuietInvariant DEF Freeze, passVars, cloudVars
<1>6. CASE StartsAnew
  BY <1>0, <1>6, StartInvariant DEF StartsAnew
<1>7. CASE \E A \in Assignments : Assign(A)
  BY <1>0, <1>7, QuietInvariant DEF Assign, passVars
<1>8. CASE UNCHANGED vars
  BY <1>0, <1>8, QuietInvariant DEF vars, passVars, cloudVars
<1>9. QED
  BY <1>1, <1>2, <1>3, <1>4, <1>5, <1>6, <1>7, <1>8 DEF LoopNext, Next, Reboot

LEMMA AlwaysInvariant == LoopSpec => []Invariant
BY InitInvariant, NextInvariant, PTL DEF LoopSpec

(* An environment that counts its restarts is one that may restart at any  *)
(* time.                                                                   *)
LEMMA SpecIsLoopSpec == Spec => LoopSpec
<1>1. [Next]_vars => [LoopNext]_vars
  BY DEF LoopNext
<1>2. QED
  BY <1>1, PTL DEF Spec, LoopSpec

-----------------------------------------------------------------------------
(* What every run of the loop does, in a process that may end at any time. *)

(* Every variable of the loop, podman and the cloud keeps its type, and a  *)
(* pass that is not merging holds no iterator (loop_apps.rs:29-112).       *)
THEOREM TypeCorrect == LoopSpec => []TypeOK
BY AlwaysInvariant, PTL DEF Invariant

(* However the merge swaps applications about in the vector, every index   *)
(* it still holds points at the application it was taken from              *)
(* (loop_apps.rs:64-102,182-196).                                          *)
THEOREM IndicesAlwaysValid == LoopSpec => []IndicesStayValid
<1>1. ASSUME Invariant PROVE IndicesStayValid
  <2>1. current \in Seq(Entry) /\ apps \in Seq(Container)
    BY <1>1 DEF Invariant, TypeOK
  <2>2. DOMAIN current = 1..Len(current) /\ DOMAIN apps = 1..Len(apps)
    BY <2>1, RangeOf
  <2>3. QED
    BY <1>1, <2>2 DEF Invariant, CursorIsSound, IndicesStayValid
<1>2. QED
  BY <1>1, AlwaysInvariant, PTL

(* Whatever failed before, and in whatever order the two lists were        *)
(* merged, a pass that gets to its report has exactly the applications it  *)
(* reports, each with its container (loop_apps.rs:104-107).                *)
THEOREM ReportsAreTrue == LoopSpec => ReportsWhatRuns
<1> DEFINE A == pc = "merge" /\ pc' = "prune" =>
                  Configs(Range(apps)) = reported' /\ Range(apps) \subseteq containers
<1>1. ASSUME Invariant, [LoopNext]_vars PROVE A
  <2> SUFFICES ASSUME pc = "merge", pc' = "prune"
               PROVE  Configs(Range(apps)) = reported' /\ Range(apps) \subseteq containers
    OBVIOUS
  <2>1. Report
    BY <1>1 DEF LoopNext, Next, PassStep, PassFailure, Tick, Fetch, Pull, Keep, Create, Remove,
                UpdateRemove, UpdateLaunch, CreateFails, UpdateLaunchFails, Prune,
                FetchFails, PullFails, ReportFails, PruneFails, Restart, RestartMisses,
                Freeze, Reboot, StartsAnew, Assign, StartAgent, Abort, RemoveHead, LaunchHead,
                LaunchHeadFails, vars, passVars
  <2>2. current = <<>> /\ target = <<>> /\ reported' = want
    BY <2>1 DEF Report
  <2>3. Len(current) = 0 /\ Len(target) = 0
    BY <2>2, EmptyList
  <2>4. (\A i : IsMerged(i)) /\ (\A c : ~IsAhead(c))
    BY <2>3 DEF IsMerged, IsAhead
  <2>5. /\ \A i \in 1..Len(apps) : apps[i].config \in want
        /\ \A c \in want : \E i \in 1..Len(apps) : apps[i].config = c
    BY <1>1, <2>4 DEF Invariant, MergeIsSound
  <2>6. \A x : x \in Range(apps) <=> \E i \in 1..Len(apps) : apps[i] = x
    BY <1>1, RangeOf DEF Invariant, TypeOK
  <2>7. Range(apps) \subseteq containers
    BY <1>1, <2>6 DEF Invariant, VectorIsSound
  <2>8. Configs(Range(apps)) = want
    BY <2>5, <2>6 DEF Configs
  <2>9. QED
    BY <2>2, <2>7, <2>8
<1>2. QED
  BY <1>1, AlwaysInvariant, PTL DEF LoopSpec, ReportsWhatRuns

-----------------------------------------------------------------------------
(* Why a pass spares what is wanted.  The vectors are sorted by the whole  *)
(* reference, and merged by what stands before its first colon.            *)

(* The two orders agree.  They do not when one image has the reference of  *)
(* another as a prefix, as "web" and "web-admin" have.                     *)
OrdersAgree ==
  \A c, d \in Config : Reference[c] < Reference[d] => Stripped[c] <= Stripped[d]

(* An image is deployed by one application.                                *)
OneApplicationPerImage ==
  \A c, d \in Config : Stripped[c] = Stripped[d] => Application[c] = Application[d]

TargetKeyOf(k) == Stripped[target[k].config]
CurrentKeyOf(k) == Stripped[current[k].app.config]

(* Both lists run strictly down in what they are merged by, so that what   *)
(* is wanted and runs still has its image ahead when its turn comes; after *)
(* an update has removed the old application, the new one is next.         *)
MergeIsOrdered ==
  /\ \A k, l \in 1..Len(target) : k < l => TargetKeyOf(k) > TargetKeyOf(l)
  /\ \A k, l \in 1..Len(current) : k < l => CurrentKeyOf(k) > CurrentKeyOf(l)
  /\ \A k \in 1..Len(current) : current[k].app.config \in want => IsAhead(current[k].app.config)
  /\ pc = "launch" => \A k \in 1..Len(current) : CurrentKeyOf(k) < TargetKeyOf(1)

LEMMA KeysAreNumbers ==
  ASSUME Invariant
  PROVE  /\ \A k \in 1..Len(target) : TargetKeyOf(k) \in Nat
         /\ \A k \in 1..Len(current) : CurrentKeyOf(k) \in Nat
<1>1. /\ \A k \in 1..Len(target) : target[k] \in Container
      /\ \A k \in 1..Len(current) : current[k] \in Entry
  BY RangeOf DEF Invariant, TypeOK
<1>2. /\ \A k \in 1..Len(target) : target[k].config \in Config
      /\ \A k \in 1..Len(current) : current[k].app.config \in Config
  BY <1>1 DEF Container, Entry
<1>3. QED
  BY <1>2, ConfigAssumption DEF TargetKeyOf, CurrentKeyOf

LEMMA EmptyIsOrdered ==
  ASSUME current = <<>>, target = <<>>
  PROVE  MergeIsOrdered
BY EmptyList DEF MergeIsOrdered

LEMMA PullOrders ==
  ASSUME Invariant, Pull, OrdersAgree, OneApplicationPerImage
  PROVE  MergeIsOrdered'
<1>1. Invariant'
  BY PullInvariant
<1>2. pc' = "merge" /\ want' = want
  BY DEF Pull
<1>3. \A c, d \in Config : Reference[c] <= Reference[d] => Stripped[c] <= Stripped[d]
  BY ConfigAssumption DEF OrdersAgree
<1>4. \A c \in Config : Reference[c] \in Nat /\ Stripped[c] \in Nat
  BY ConfigAssumption
<1>5. ASSUME NEW k \in 1..Len(target'), NEW l \in 1..Len(target'), k < l
      PROVE  Stripped[target'[k].config] > Stripped[target'[l].config]
  <2> DEFINE c == target'[k].config
             d == target'[l].config
  <2>1. c \in Config /\ d \in Config /\ Reference[c] >= Reference[d]
    BY <1>5, PullTargets
  <2>2. c \in want /\ d \in want /\ (c = d => k = l)
    BY <1>1, <1>2 DEF Invariant, TargetIsSound
  <2>3. k # l
    BY <1>1, <1>5, LenProperties DEF Invariant, TypeOK
  <2> HIDE DEF c, d
  <2>4. Stripped[d] <= Stripped[c]
    BY <1>3, <1>4, <2>1
  <2>5. Stripped[c] # Stripped[d]
    BY <2>1, <2>2, <2>3 DEF OneApplicationPerImage, Invariant, TargetIsSound, Assignments
  <2>6. Stripped[c] > Stripped[d]
    BY <1>4, <2>1, <2>4, <2>5
  <2>7. QED
    BY <2>6 DEF c, d
<1>6. PICK s \in Sorted(apps) : apps' = s /\ current' = Entries(s)
  BY DEF Pull
<1>7. apps \in Seq(Container) /\ IsFiniteSet(Range(apps))
  <2>1. apps \in Seq(Container) /\ \A i \in 1..Len(apps) : apps[i] \in containers
    BY DEF Invariant, TypeOK, VectorIsSound
  <2>2. Range(apps) \subseteq containers
    BY <2>1, RangeOf
  <2>3. QED
    BY <2>1, <2>2, FS_Subset DEF Invariant, ContainersAreSound
<1>8. /\ apps' \in Seq(Container)
      /\ \A i, j \in 1..Len(apps') : i < j => Reference[apps'[i].config] <= Reference[apps'[j].config]
  BY <1>6, <1>7, SortedOf
<1>9. /\ Len(current') = Len(apps') /\ Len(apps') \in Nat
      /\ \A i \in 1..Len(apps') :
           /\ Len(apps') + 1 - i \in 1..Len(apps')
           /\ current'[i].app = apps'[Len(apps') + 1 - i]
  BY <1>6, <1>8, EntriesOf, RangeOf
<1>10. \A i \in 1..Len(apps') : apps'[i].config \in Config
  <2>1. \A i \in 1..Len(apps') : apps'[i] \in Container
    BY <1>8, RangeOf
  <2>2. QED
    BY <2>1 DEF Container
<1>11. ASSUME NEW k \in 1..Len(current'), NEW l \in 1..Len(current'), k < l
       PROVE  Stripped[current'[k].app.config] > Stripped[current'[l].app.config]
  <2> DEFINE i == Len(apps') + 1 - l
             j == Len(apps') + 1 - k
             c == apps'[j].config
             d == apps'[i].config
  <2>1. /\ i \in 1..Len(apps') /\ j \in 1..Len(apps') /\ i < j
        /\ current'[k].app = apps'[j] /\ current'[l].app = apps'[i]
    BY <1>9, <1>11
  <2>2. Reference[d] <= Reference[c] /\ c \in Config /\ d \in Config
    BY <1>8, <1>10, <2>1
  <2>3. apps'[i] # apps'[j]
    <3>1. i # j
      BY <1>9, <2>1
    <3> HIDE DEF i, j
    <3>2. QED
      BY <1>1, <2>1, <3>1 DEF Invariant, VectorIsSound
  <2>4. ContainerName[c] # ContainerName[d]
    <3>1. apps'[i] \in containers' /\ apps'[j] \in containers'
      BY <1>1, <2>1 DEF Invariant, VectorIsSound
    <3> HIDE DEF i, j
    <3>2. QED
      BY <1>1, <2>3, <3>1 DEF Invariant, ContainersAreSound
  <2>5. Stripped[c] # Stripped[d] /\ Stripped[d] <= Stripped[c]
    BY <1>3, <2>2, <2>4, ConfigAssumption
  <2>6. Stripped[c] > Stripped[d]
    BY <1>4, <2>2, <2>5
  <2>7. QED
    BY <2>1, <2>6
<1>12. \A c \in want' : IsAhead(c)'
  <2>1. MergeIsSound' /\ \A i \in 1..Len(apps') : \E k \in 1..Len(current') : current'[k].index = i
    <3>1. ASSUME NEW i \in 1..Len(apps') PROVE \E k \in 1..Len(current') : current'[k].index = i
      <4>1. current'[Len(apps') + 1 - i].index = i
        BY <1>6, <1>8, <1>9, EntriesOf
      <4>2. QED
        BY <1>9, <4>1
    <3>2. QED
      BY <1>1, <3>1 DEF Invariant
  <2>2. QED
    BY <1>2, <2>1 DEF MergeIsSound, IsMerged
<1>13. QED
  BY <1>2, <1>5, <1>11, <1>12 DEF MergeIsOrdered, TargetKeyOf, CurrentKeyOf

(* What one step of the merge leaves of the order when it takes the head   *)
(* off either list.                                                        *)
LEMMA OrderAdvances ==
  ASSUME Invariant, MergeIsOrdered
  PROVE  /\ target # <<>> /\ target' = Tail(target) =>
              /\ \A k, l \in 1..Len(target') : k < l => TargetKeyOf(k)' > TargetKeyOf(l)'
              /\ \A c : (\E k \in 1..Len(target) : target[k].config = c /\ k # 1)
                          => IsAhead(c)'
         /\ current # <<>> /\ current' = Tail(current) =>
              /\ \A k, l \in 1..Len(current') : k < l => CurrentKeyOf(k)' > CurrentKeyOf(l)'
              /\ \A k \in 1..Len(current') :
                   /\ CurrentKeyOf(k)' < HeadKey
                   /\ \E l \in 1..Len(current) : current[l] = current'[k]
<1>1. target \in Seq(Container) /\ current \in Seq(Entry)
  BY DEF Invariant, TypeOK
<1>2. ASSUME target # <<>>, target' = Tail(target)
      PROVE  /\ \A k, l \in 1..Len(target') : k < l => TargetKeyOf(k)' > TargetKeyOf(l)'
             /\ \A c : (\E k \in 1..Len(target) : target[k].config = c /\ k # 1) => IsAhead(c)'
  <2>1. /\ Len(target) \in Nat /\ Len(target') = Len(target) - 1
        /\ \A i \in 1..Len(target') : i + 1 \in 1..Len(target) /\ target'[i] = target[i + 1]
    BY <1>1, <1>2, TailOf
  <2>2. ASSUME NEW k \in 1..Len(target'), NEW l \in 1..Len(target'), k < l
        PROVE  TargetKeyOf(k)' > TargetKeyOf(l)'
    <3>1. k + 1 \in 1..Len(target) /\ l + 1 \in 1..Len(target) /\ k + 1 < l + 1
      BY <2>1, <2>2
    <3>2. TargetKeyOf(k + 1) > TargetKeyOf(l + 1)
      BY <3>1 DEF MergeIsOrdered
    <3>3. QED
      BY <2>1, <3>2 DEF TargetKeyOf
  <2>3. ASSUME NEW c, NEW k \in 1..Len(target), target[k].config = c, k # 1
        PROVE  \E l \in 1..Len(target') : target'[l].config = c
    <3>1. k - 1 \in 1..Len(target') /\ (k - 1) + 1 = k
      BY <2>1, <2>3
    <3>2. target'[k - 1] = target[k]
      BY <2>1, <3>1
    <3>3. QED
      BY <2>3, <3>1, <3>2
  <2>4. QED
    BY <2>2, <2>3 DEF IsAhead
<1>3. ASSUME current # <<>>, current' = Tail(current)
      PROVE  /\ \A k, l \in 1..Len(current') : k < l => CurrentKeyOf(k)' > CurrentKeyOf(l)'
             /\ \A k \in 1..Len(current') :
                  /\ CurrentKeyOf(k)' < HeadKey
                  /\ \E l \in 1..Len(current) : current[l] = current'[k]
  <2>1. /\ Len(current) \in Nat /\ 1 <= Len(current) /\ Len(current') = Len(current) - 1
        /\ Head(current) = current[1]
        /\ \A i \in 1..Len(current') : i + 1 \in 1..Len(current) /\ current'[i] = current[i + 1]
    BY <1>1, <1>3, TailOf
  <2>2. ASSUME NEW k \in 1..Len(current'), NEW l \in 1..Len(current'), k < l
        PROVE  CurrentKeyOf(k)' > CurrentKeyOf(l)'
    <3>1. k + 1 \in 1..Len(current) /\ l + 1 \in 1..Len(current) /\ k + 1 < l + 1
      BY <2>1, <2>2
    <3>2. CurrentKeyOf(k + 1) > CurrentKeyOf(l + 1)
      BY <3>1 DEF MergeIsOrdered
    <3>3. QED
      BY <2>1, <3>2 DEF CurrentKeyOf
  <2>3. ASSUME NEW k \in 1..Len(current')
        PROVE  CurrentKeyOf(k)' < HeadKey /\ \E l \in 1..Len(current) : current[l] = current'[k]
    <3>1. k + 1 \in 1..Len(current) /\ 1 \in 1..Len(current) /\ 1 < k + 1
      BY <2>1
    <3>2. CurrentKeyOf(1) > CurrentKeyOf(k + 1)
      BY <3>1 DEF MergeIsOrdered
    <3>3. CurrentKeyOf(1) \in Nat /\ CurrentKeyOf(k + 1) \in Nat
      BY <3>1, KeysAreNumbers
    <3>4. CurrentKeyOf(1) = HeadKey /\ CurrentKeyOf(k + 1) = CurrentKeyOf(k)'
      BY <2>1 DEF CurrentKeyOf, HeadKey
    <3>5. QED
      BY <2>1, <3>1, <3>2, <3>3, <3>4
  <2>4. QED
    BY <2>2, <2>3
<1>4. QED
  BY <1>2, <1>3

(* No image still ahead comes before the head of the images.               *)
LEMMA HeadIsFirst ==
  ASSUME Invariant, MergeIsOrdered, NEW c, IsAhead(c)
  PROVE  /\ target # <<>> /\ TargetKey = TargetKeyOf(1) /\ TargetKey \in Nat
         /\ Stripped[c] \in Nat /\ Stripped[c] <= TargetKey
         /\ Stripped[c] = TargetKey => c = Head(target).config
<1>1. PICK k \in 1..Len(target) : target[k].config = c
  BY DEF IsAhead
<1>2. target \in Seq(Container) /\ target # <<>>
  BY <1>1, EmptyList DEF Invariant, TypeOK
<1>3. Head(target) = target[1] /\ Len(target) \in Nat /\ 1 \in 1..Len(target)
  BY <1>2, TailOf
<1>4. TargetKeyOf(1) \in Nat /\ TargetKeyOf(k) \in Nat /\ TargetKeyOf(k) = Stripped[c]
  BY <1>1, <1>3, KeysAreNumbers DEF TargetKeyOf
<1>5. k # 1 => TargetKeyOf(1) > TargetKeyOf(k)
  BY <1>1, <1>3 DEF MergeIsOrdered
<1>6. TargetKey = TargetKeyOf(1)
  BY <1>3 DEF TargetKey, TargetKeyOf
<1>7. QED
  BY <1>1, <1>2, <1>3, <1>4, <1>5, <1>6

LEMMA LaunchOrders ==
  ASSUME Invariant, MergeIsOrdered, target # <<>>, target' = Tail(target), want' = want,
         pc' = "merge",
         \A k, l \in 1..Len(current') : k < l => CurrentKeyOf(k)' > CurrentKeyOf(l)',
         \A k \in 1..Len(current') :
           /\ \E l \in 1..Len(current) : current[l] = current'[k]
           /\ CurrentKeyOf(k)' # TargetKey
  PROVE  MergeIsOrdered'
<1>1. /\ \A k, l \in 1..Len(target') : k < l => TargetKeyOf(k)' > TargetKeyOf(l)'
      /\ \A c : (\E k \in 1..Len(target) : target[k].config = c /\ k # 1) => IsAhead(c)'
  BY OrderAdvances
<1>2. ASSUME NEW k \in 1..Len(current'), current'[k].app.config \in want
      PROVE  IsAhead(current[k].app.config)'
  <2>1. PICK l \in 1..Len(current) : current[l] = current'[k]
    OBVIOUS
  <2>2. PICK c : c = current[l].app.config
    OBVIOUS
  <2>3. PICK m \in 1..Len(target) : target[m].config = c
    BY <1>2, <2>1, <2>2 DEF MergeIsOrdered, IsAhead
  <2>4. Stripped[c] # TargetKey
    BY <2>1, <2>2 DEF CurrentKeyOf
  <2>5. m # 1
    <3>1. Head(target) = target[1]
      BY TailOf DEF Invariant, TypeOK
    <3>2. QED
      BY <2>3, <2>4, <3>1 DEF TargetKey
  <2>6. IsAhead(c)'
    BY <1>1, <2>3, <2>5
  <2>7. c = current'[k].app.config
    BY <2>1, <2>2
  <2>8. QED
    BY <2>6, <2>7 DEF IsAhead
<1>3. QED
  BY <1>1, <1>2 DEF MergeIsOrdered

LEMMA RemovalOrders ==
  ASSUME Invariant, MergeIsOrdered, current # <<>>, current' = Tail(current),
         UNCHANGED <<target, want>>,
         pc' = "launch" => target # <<>> /\ HeadKey = TargetKey
  PROVE  MergeIsOrdered'
<1>1. /\ \A k, l \in 1..Len(current') : k < l => CurrentKeyOf(k)' > CurrentKeyOf(l)'
      /\ \A k \in 1..Len(current') :
           /\ CurrentKeyOf(k)' < HeadKey
           /\ \E l \in 1..Len(current) : current[l] = current'[k]
  BY OrderAdvances
<1>2. \A k, l \in 1..Len(target') : k < l => TargetKeyOf(k)' > TargetKeyOf(l)'
  BY DEF MergeIsOrdered, TargetKeyOf
<1>3. ASSUME NEW k \in 1..Len(current'), current'[k].app.config \in want
      PROVE  IsAhead(current[k].app.config)'
  <2>1. PICK l \in 1..Len(current) : current[l] = current'[k]
    BY <1>1
  <2>2. IsAhead(current[l].app.config)
    BY <1>3, <2>1 DEF MergeIsOrdered
  <2>3. QED
    BY <2>1, <2>2 DEF IsAhead
<1>4. pc' = "launch" => \A k \in 1..Len(current') : CurrentKeyOf(k)' < TargetKeyOf(1)'
  <2>1. pc' = "launch" => Head(target) = target[1]
    BY TailOf DEF Invariant, TypeOK
  <2>2. pc' = "launch" => HeadKey = TargetKeyOf(1)'
    BY <2>1 DEF TargetKeyOf, TargetKey
  <2>3. QED
    BY <1>1, <2>2
<1>5. QED
  BY <1>1, <1>2, <1>3, <1>4 DEF MergeIsOrdered

LEMMA CurrentHeads ==
  ASSUME Invariant, MergeIsOrdered
  PROVE  /\ \A k \in 1..Len(current) : current # <<>> /\ HeadKey \in Nat /\ CurrentKeyOf(k) <= HeadKey
         /\ target # <<>> => TargetKey \in Nat /\ TargetKey = TargetKeyOf(1)
<1>1. ASSUME NEW k \in 1..Len(current)
      PROVE  current # <<>> /\ HeadKey \in Nat /\ CurrentKeyOf(k) <= HeadKey
  <2>1. current \in Seq(Entry) /\ current # <<>>
    BY EmptyList DEF Invariant, TypeOK
  <2>2. Head(current) = current[1] /\ 1 \in 1..Len(current) /\ Len(current) \in Nat
    BY <2>1, TailOf
  <2>3. HeadKey = CurrentKeyOf(1)
    BY <2>2 DEF HeadKey, CurrentKeyOf
  <2>4. CurrentKeyOf(1) \in Nat /\ CurrentKeyOf(k) \in Nat
    BY <2>2, KeysAreNumbers
  <2>5. k # 1 => CurrentKeyOf(1) > CurrentKeyOf(k)
    BY <2>2 DEF MergeIsOrdered
  <2>6. QED
    BY <2>1, <2>3, <2>4, <2>5
<1>2. ASSUME target # <<>> PROVE TargetKey \in Nat /\ TargetKey = TargetKeyOf(1)
  <2>1. Head(target) = target[1] /\ 1 \in 1..Len(target)
    BY <1>2, TailOf DEF Invariant, TypeOK
  <2>2. QED
    BY <2>1, KeysAreNumbers DEF TargetKey, TargetKeyOf
<1>3. QED
  BY <1>1, <1>2

LEMMA PassStepOrders ==
  ASSUME Invariant, MergeIsOrdered, PassStep, OrdersAgree, OneApplicationPerImage
  PROVE  MergeIsOrdered'
<1>1. CASE current' = <<>> /\ target' = <<>>
  BY <1>1, EmptyList DEF MergeIsOrdered
<1>2. CASE Pull
  BY <1>2, PullOrders
<1>3. CASE Keep
  <2>1. /\ current # <<>> /\ target # <<>> /\ HeadKey = TargetKey /\ pc' = "merge" /\ want' = want
        /\ current' = Tail(current) /\ target' = Tail(target)
    BY <1>3 DEF Keep, SameNext
  <2>2. /\ \A k, l \in 1..Len(current') : k < l => CurrentKeyOf(k)' > CurrentKeyOf(l)'
        /\ \A k \in 1..Len(current') :
             /\ CurrentKeyOf(k)' < HeadKey
             /\ \E l \in 1..Len(current) : current[l] = current'[k]
    BY <2>1, OrderAdvances
  <2>3. TargetKey \in Nat
    BY <2>1, CurrentHeads
  <2>4. \A k \in 1..Len(current') : CurrentKeyOf(k)' # TargetKey
    BY <2>1, <2>2, <2>3
  <2>5. QED
    BY <2>1, <2>2, <2>4, LaunchOrders
<1>4. CASE Create \/ UpdateLaunch
  <2>1. /\ target # <<>> /\ pc' = "merge" /\ UNCHANGED <<want, current>>
        /\ target' = Tail(target)
    BY <1>4 DEF Create, CreateNext, UpdateLaunch, LaunchHead, Invariant, TypeOK
  <2>2. \A k, l \in 1..Len(current') : k < l => CurrentKeyOf(k)' > CurrentKeyOf(l)'
    BY <2>1 DEF MergeIsOrdered, CurrentKeyOf
  <2>3. ASSUME NEW k \in 1..Len(current) PROVE CurrentKeyOf(k) < TargetKey
    <3>1. CASE Create
      <4>1. HeadKey < TargetKey
        BY <2>3, <3>1, CurrentHeads DEF Create, CreateNext
      <4>2. HeadKey \in Nat /\ TargetKey \in Nat /\ CurrentKeyOf(k) \in Nat /\ CurrentKeyOf(k) <= HeadKey
        BY <2>1, <2>3, CurrentHeads, KeysAreNumbers
      <4>3. QED
        BY <4>1, <4>2
    <3>2. CASE UpdateLaunch
      BY <2>1, <2>3, <3>2, CurrentHeads DEF UpdateLaunch, MergeIsOrdered
    <3>3. QED
      BY <1>4, <3>1, <3>2
  <2>4. \A k \in 1..Len(current') :
          (\E l \in 1..Len(current) : current[l] = current'[k]) /\ CurrentKeyOf(k)' # TargetKey
    <3>1. ASSUME NEW k \in 1..Len(current) PROVE CurrentKeyOf(k)' # TargetKey
      <4>1. CurrentKeyOf(k)' = CurrentKeyOf(k)
        BY <2>1 DEF CurrentKeyOf
      <4>2. CurrentKeyOf(k) \in Nat /\ TargetKey \in Nat
        BY <2>1, CurrentHeads, KeysAreNumbers
      <4>3. QED
        BY <2>3, <4>1, <4>2
    <3>2. QED
      BY <2>1, <3>1
  <2>5. QED
    BY <2>1, <2>2, <2>4, LaunchOrders
<1>5. CASE Remove
  BY <1>5, RemovalOrders DEF Remove, RemoveNext, RemoveHead
<1>6. CASE UpdateRemove
  BY <1>6, RemovalOrders DEF UpdateRemove, SameNext, RemoveHead
<1>7. CASE Tick \/ Fetch \/ Report
  <2>1. current = <<>> /\ target = <<>>
    BY <1>7 DEF Tick, Fetch, Report, Invariant, TypeOK
  <2>2. QED
    BY <1>1, <1>7, <2>1 DEF Tick, Fetch, Report
<1>8. CASE CreateFails \/ UpdateLaunchFails \/ Prune
  BY <1>1, <1>8 DEF CreateFails, UpdateLaunchFails, LaunchHeadFails, Prune, Abort
<1>9. QED
  BY <1>2, <1>3, <1>4, <1>5, <1>6, <1>7, <1>8 DEF PassStep

LEMMA NextOrders ==
  ASSUME Invariant, MergeIsOrdered, [LoopNext]_vars, OrdersAgree, OneApplicationPerImage
  PROVE  MergeIsOrdered'
<1>1. CASE PassStep
  BY <1>1, PassStepOrders
<1>2. CASE PassFailure \/ Restart \/ RestartMisses \/ StartsAnew
  <2>1. current' = <<>> /\ target' = <<>>
    BY <1>2 DEF PassFailure, FetchFails, PullFails, ReportFails, PruneFails, Restart,
                RestartMisses, StartsAnew, StartAgent, Abort
  <2>2. QED
    BY <2>1, EmptyList DEF MergeIsOrdered
<1>3. CASE UNCHANGED <<pc, want, current, target>>
  BY <1>3 DEF MergeIsOrdered, TargetKeyOf, CurrentKeyOf, IsAhead
<1>4. QED
  BY <1>1, <1>2, <1>3 DEF LoopNext, Next, Freeze, Reboot, Assign, vars, passVars

LEMMA AlwaysOrdered ==
  ASSUME OrdersAgree, OneApplicationPerImage
  PROVE  LoopSpec => [](Invariant /\ MergeIsOrdered)
<1>1. Init => Invariant /\ MergeIsOrdered
  BY InitInvariant, EmptyIsOrdered DEF Init
<1>2. Invariant /\ MergeIsOrdered /\ [LoopNext]_vars => (Invariant /\ MergeIsOrdered)'
  BY NextInvariant, NextOrders
<1>3. QED
  BY <1>1, <1>2, PTL DEF LoopSpec

(* Zero downtime for what has not changed: on a device where the order of  *)
(* the references is that of the images and no two applications deploy one *)
(* image, no pass tears down a container of a config that is still wanted, *)
(* whatever fails and however often the agent restarts                     *)
(* (loop_apps.rs:60-102,218-268).                                          *)
THEOREM WantedIsKept ==
  ASSUME OrdersAgree, OneApplicationPerImage
  PROVE  LoopSpec => KeepsWhatIsWanted
<1> DEFINE A == \A c \in containers \ containers' : c.config \notin want
<1>1. ASSUME Invariant, MergeIsOrdered, Remove \/ UpdateRemove
      PROVE  Head(current).app.config \notin want
  <2> SUFFICES ASSUME Head(current).app.config \in want PROVE FALSE
    OBVIOUS
  <2>1. PICK c : c = Head(current).app.config
    OBVIOUS
  <2>2. current # <<>>
    BY <1>1 DEF Remove, RemoveNext, UpdateRemove, SameNext
  <2>3. Head(current) = current[1] /\ 1 \in 1..Len(current)
    BY <2>2, TailOf DEF Invariant, TypeOK
  <2>4. IsAhead(c)
    BY <1>1, <2>1, <2>3 DEF MergeIsOrdered
  <2>5. /\ target # <<>> /\ TargetKey \in Nat /\ Stripped[c] \in Nat /\ Stripped[c] <= TargetKey
        /\ Stripped[c] = TargetKey => c = Head(target).config
    BY <1>1, <2>4, HeadIsFirst
  <2>6. HeadKey = Stripped[c]
    BY <2>1 DEF HeadKey
  <2>7. UpdateRemove
    BY <1>1, <2>5, <2>6 DEF Remove, RemoveNext
  <2>8. c = Head(target).config /\ OutOfDate
    BY <2>5, <2>6, <2>7 DEF UpdateRemove, SameNext
  <2>9. Head(current).app = Head(target)
    <3>1. /\ Head(current).index \in 1..Len(apps)
          /\ apps[Head(current).index] = Head(current).app
      BY <1>1, <2>3 DEF Invariant, CursorIsSound
    <3>2. Head(current).app \in containers
      BY <1>1, <3>1 DEF Invariant, VectorIsSound
    <3>3. Head(current).app \in Container /\ Head(current).app.digest = local[Reference[c]]
      BY <1>1, <2>1, <3>2 DEF Invariant, TypeOK, ContainersAreSound
    <3>4. target \in Seq(Container)
      BY <1>1 DEF Invariant, TypeOK
    <3>5. Head(target) \in Container /\ Head(target) = target[1] /\ 1 \in 1..Len(target)
      BY <2>5, <3>4, TailOf
    <3>6. Head(target).digest = local[Reference[c]]
      BY <1>1, <2>8, <3>5 DEF Invariant, TargetIsSound
    <3>7. \A x, y \in Container : x.config = y.config /\ x.digest = y.digest => x = y
      BY DEF Container
    <3>8. QED
      BY <2>1, <2>8, <3>3, <3>5, <3>6, <3>7
  <2>10. QED
    BY <2>8, <2>9 DEF OutOfDate
<1>2. ASSUME Invariant, MergeIsOrdered, [LoopNext]_vars PROVE A
  <2>1. CASE Remove \/ UpdateRemove
    <3>1. current # <<>> /\ apps[Head(current).index] = Head(current).app
      <4>1. current # <<>>
        BY <2>1 DEF Remove, RemoveNext, UpdateRemove, SameNext
      <4>2. Head(current) = current[1] /\ 1 \in 1..Len(current)
        BY <1>2, <4>1, TailOf DEF Invariant, TypeOK
      <4>3. QED
        BY <1>2, <4>1, <4>2 DEF Invariant, CursorIsSound
    <3>2. containers \ containers' \subseteq {Head(current).app}
      BY <2>1, <3>1 DEF Remove, UpdateRemove, RemoveHead
    <3>3. QED
      BY <1>1, <1>2, <2>1, <3>2
  <2>2. CASE ~(Remove \/ UpdateRemove)
    <3>1. containers \subseteq containers'
      BY <1>2, <2>2 DEF LoopNext, Next, PassStep, PassFailure, Tick, Fetch, Pull, Keep, Create,
                UpdateLaunch, CreateFails, UpdateLaunchFails, Report, Prune,
                FetchFails, PullFails, ReportFails, PruneFails, Restart, RestartMisses,
                Freeze, Reboot, StartsAnew, Assign, StartAgent, LaunchHead,
                LaunchHeadFails, vars, passVars, podmanVars
    <3>2. QED
      BY <3>1
  <2>3. QED
    BY <2>1, <2>2
<1>3. LoopSpec => [](Invariant /\ MergeIsOrdered)
  BY AlwaysOrdered
<1>4. QED
  BY <1>2, <1>3, PTL DEF LoopSpec, KeepsWhatIsWanted

(* So it is, too, in the environment the runs of this module have, which   *)
(* counts its restarts (loop_apps.rs:29-112).                              *)
THEOREM LoopKeepsItsPromises ==
  ASSUME OrdersAgree, OneApplicationPerImage
  PROVE  Spec => [](TypeOK /\ IndicesStayValid) /\ ReportsWhatRuns /\ KeepsWhatIsWanted
BY SpecIsLoopSpec, TypeCorrect, IndicesAlwaysValid, ReportsAreTrue, WantedIsKept, PTL
===============================================================================
