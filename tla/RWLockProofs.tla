---------------------------- MODULE RWLockProofs ----------------------------
(***************************************************************************)
(* Proofs about RWLock for any finite number of threads.                   *)
(***************************************************************************)
EXTENDS RWLock, FiniteSetTheorems, TLAPS

(* The sets the counters count are finite.                                 *)
LEMMA CountedSetsFinite ==
  ASSUME NEW r \in Roles
  PROVE  IsFiniteSet(Active(r)) /\ IsFiniteSet(Waiting(r))
<1>1. Active(r) \subseteq Thread /\ Waiting(r) \subseteq Thread
  BY DEF Active, Waiting
<1> QED BY <1>1, RWThreads, FS_Subset

(* A move between labels of the same class leaves the counted sets alone.  *)
LEMMA SameClass ==
  ASSUME NEW t \in Thread, NEW from, NEW to,
         pc \in [Thread -> Labels], Goto(t, from, to),
         from \in InsideLabels <=> to \in InsideLabels,
         from \in WaitLabels <=> to \in WaitLabels,
         \/ role' = role
         \/ /\ from \notin InsideLabels \cup WaitLabels
            /\ \E r \in Roles : role' = [role EXCEPT ![t] = r],
         role \in [Thread -> Roles]
  PROVE  \A r \in Roles : Active(r)' = Active(r) /\ Waiting(r)' = Waiting(r)
<1>1. pc'[t] = to /\ pc[t] = from /\ \A u \in Thread : u # t => pc'[u] = pc[u]
  BY DEF Goto
<1>2. \A u \in Thread : u # t => role'[u] = role[u]
  OBVIOUS
<1>3. from \in InsideLabels \cup WaitLabels => role'[t] = role[t]
  OBVIOUS
<1> SUFFICES ASSUME NEW r \in Roles, NEW u \in Thread
             PROVE  /\ pc'[u] \in InsideLabels /\ role'[u] = r
                         <=> pc[u] \in InsideLabels /\ role[u] = r
                    /\ pc'[u] \in WaitLabels /\ role'[u] = r
                         <=> pc[u] \in WaitLabels /\ role[u] = r
  BY DEF Active, Waiting
<1>4. CASE u = t
  BY <1>1, <1>3, <1>4
<1>5. CASE u # t
  BY <1>1, <1>2, <1>5
<1> QED BY <1>4, <1>5

(* A step that takes t into, or out of, the sets its role is counted in.   *)
LEMMA ChangeClass ==
  ASSUME NEW t \in Thread, NEW from, NEW to,
         pc \in [Thread -> Labels], Goto(t, from, to), role' = role,
         NEW r \in Roles, role[t] = r
  PROVE  /\ \A q \in Roles \ {r} :
              Active(q)' = Active(q) /\ Waiting(q)' = Waiting(q)
         /\ Active(r)' = IF to \in InsideLabels THEN Active(r) \cup {t}
                                                ELSE Active(r) \ {t}
         /\ Waiting(r)' = IF to \in WaitLabels THEN Waiting(r) \cup {t}
                                               ELSE Waiting(r) \ {t}
         /\ t \in Active(r) <=> from \in InsideLabels
         /\ t \in Waiting(r) <=> from \in WaitLabels
<1>1. pc'[t] = to /\ pc[t] = from /\ \A u \in Thread : u # t => pc'[u] = pc[u]
  BY DEF Goto
<1>2. ASSUME NEW q \in Roles \ {r}
      PROVE  Active(q)' = Active(q) /\ Waiting(q)' = Waiting(q)
  BY <1>1 DEF Active, Waiting
<1>3. Active(r)' = IF to \in InsideLabels THEN Active(r) \cup {t}
                                          ELSE Active(r) \ {t}
  BY <1>1 DEF Active
<1>4. Waiting(r)' = IF to \in WaitLabels THEN Waiting(r) \cup {t}
                                         ELSE Waiting(r) \ {t}
  BY <1>1 DEF Waiting
<1>5. /\ t \in Active(r) <=> from \in InsideLabels
      /\ t \in Waiting(r) <=> from \in WaitLabels
  BY <1>1 DEF Active, Waiting
<1> QED BY <1>2, <1>3, <1>4, <1>5

(* Adding or removing one element changes the cardinality by one.          *)
LEMMA CountOne ==
  ASSUME NEW S, IsFiniteSet(S), NEW x
  PROVE  /\ Cardinality(S) \in Nat
         /\ x \notin S => Cardinality(S \cup {x}) = Cardinality(S) + 1
         /\ x \in S => Cardinality(S \ {x}) = Cardinality(S) - 1
         /\ Cardinality(S) = 0 <=> S = {}
BY FS_AddElement, FS_RemoveElement, FS_CardinalityType, FS_EmptySet

-----------------------------------------------------------------------------
(* The part of the invariant about the guard lock.                         *)
GuardInv == GuardTaken /\ GuardExclusion /\ HolderExact

LEMMA GuardDown ==
  ASSUME RWInv, NEW t \in Thread, NEW from, NEW to, LockDown(t, from, to),
         from \notin GuardLabels, to \in GuardLabels \ HolderLabels
  PROVE  GuardInv' /\ value' \in 0..1
<1> USE DEF RWInv, TypeOK
<1>1. /\ pc'[t] = to /\ pc[t] = from /\ \A u \in Thread : u # t => pc'[u] = pc[u]
      /\ value = 1 /\ value' = 0 /\ holder' = holder
  BY DEF LockDown, Goto
<1>2. \A u \in Thread : pc[u] \notin GuardLabels
  BY <1>1 DEF GuardTaken
<1>3. \A u \in Thread : pc'[u] \in HolderLabels <=> pc[u] \in HolderLabels
  BY <1>1, <1>2 DEF GuardLabels
<1>5. GuardTaken'
  BY <1>1, <1>2, <1>3 DEF GuardTaken
<1>6. GuardExclusion'
  BY <1>1, <1>2, <1>3 DEF GuardExclusion
<1>7. HolderExact'
  BY <1>1, <1>2, <1>3 DEF HolderExact
<1>8. value' \in 0..1
  BY <1>1, <1>2, <1>3
<1> QED BY <1>5, <1>6, <1>7, <1>8 DEF GuardInv

LEMMA GuardSetHolder ==
  ASSUME RWInv, NEW t \in Thread, NEW from, NEW to, LockSetHolder(t, from, to),
         from \in GuardLabels, to \in HolderLabels
  PROVE  GuardInv' /\ value' \in 0..1
<1> USE DEF RWInv, TypeOK
<1>1. /\ pc'[t] = to /\ pc[t] = from /\ \A u \in Thread : u # t => pc'[u] = pc[u]
      /\ value' = value /\ holder' = t
  BY DEF LockSetHolder, Goto
<1>2. \A u \in Thread : u # t => pc[u] \notin GuardLabels
  BY <1>1 DEF GuardExclusion
<1>3. HolderLabels \subseteq GuardLabels
  BY DEF GuardLabels
<1>5. GuardTaken'
  BY <1>1, <1>2, <1>3 DEF GuardTaken
<1>6. GuardExclusion'
  BY <1>1, <1>2, <1>3 DEF GuardExclusion
<1>7. HolderExact'
  BY <1>1, <1>2, <1>3 DEF HolderExact
<1>8. value' \in 0..1
  BY <1>1, <1>2, <1>3
<1> QED BY <1>5, <1>6, <1>7, <1>8 DEF GuardInv

LEMMA GuardClearHolder ==
  ASSUME RWInv, NEW t \in Thread, NEW from, NEW to, LockClearHolder(t, from, to),
         from \in HolderLabels, to \in GuardLabels \ HolderLabels
  PROVE  GuardInv' /\ value' \in 0..1
<1> USE DEF RWInv, TypeOK
<1>1. /\ pc'[t] = to /\ pc[t] = from /\ \A u \in Thread : u # t => pc'[u] = pc[u]
      /\ value' = value /\ holder' = NoThread
  BY DEF LockClearHolder, Goto
<1>2. HolderLabels \subseteq GuardLabels
  BY DEF GuardLabels
<1>3. \A u \in Thread : u # t => pc[u] \notin GuardLabels
  BY <1>1, <1>2 DEF GuardExclusion
<1>5. GuardTaken'
  BY <1>1, <1>2, <1>3, RWThreads DEF GuardTaken
<1>6. GuardExclusion'
  BY <1>1, <1>2, <1>3, RWThreads DEF GuardExclusion
<1>7. HolderExact'
  BY <1>1, <1>2, <1>3, RWThreads DEF HolderExact
<1>8. value' \in 0..1
  BY <1>1, <1>2, <1>3, RWThreads
<1> QED BY <1>5, <1>6, <1>7, <1>8 DEF GuardInv

LEMMA GuardUp ==
  ASSUME RWInv, NEW t \in Thread, NEW from, NEW to, LockUp(t, from, to),
         from \in GuardLabels \ HolderLabels, to \notin GuardLabels
  PROVE  GuardInv' /\ value' \in 0..1
<1> USE DEF RWInv, TypeOK
<1>1. /\ pc'[t] = to /\ pc[t] = from /\ \A u \in Thread : u # t => pc'[u] = pc[u]
      /\ value' = value + 1 /\ holder' = holder
  BY DEF LockUp, Goto
<1>2. HolderLabels \subseteq GuardLabels
  BY DEF GuardLabels
<1>3. \A u \in Thread : u # t => pc[u] \notin GuardLabels
  BY <1>1 DEF GuardExclusion
<1>4. value = 0
  BY <1>1 DEF GuardTaken
<1>5. GuardTaken'
  BY <1>1, <1>2, <1>3, <1>4 DEF GuardTaken
<1>6. GuardExclusion'
  BY <1>1, <1>2, <1>3, <1>4 DEF GuardExclusion
<1>7. HolderExact'
  BY <1>1, <1>2, <1>3, <1>4 DEF HolderExact
<1>8. value' \in 0..1
  BY <1>1, <1>2, <1>3, <1>4
<1> QED BY <1>5, <1>6, <1>7, <1>8 DEF GuardInv

(* A step that leaves the lock alone and stays inside, or outside, the     *)
(* section the guard lock protects.                                        *)
LEMMA GuardStay ==
  ASSUME RWInv, NEW t \in Thread, NEW from, NEW to, Goto(t, from, to),
         from \in HolderLabels <=> to \in HolderLabels,
         from \in GuardLabels <=> to \in GuardLabels,
         UNCHANGED <<value, holder>>
  PROVE  GuardInv' /\ value' \in 0..1
<1> USE DEF RWInv, TypeOK
<1>1. /\ pc'[t] = to /\ pc[t] = from /\ \A u \in Thread : u # t => pc'[u] = pc[u]
  BY DEF Goto
<1>2. \A u \in Thread : /\ pc'[u] \in HolderLabels <=> pc[u] \in HolderLabels
                        /\ pc'[u] \in GuardLabels <=> pc[u] \in GuardLabels
  BY <1>1
<1> QED BY <1>2 DEF GuardInv, GuardTaken, GuardExclusion, HolderExact

-----------------------------------------------------------------------------
(* The part of the invariant about the counters.                           *)
CountInv == CountersExact /\ RWExclusion

LEMMA CountStay ==
  ASSUME RWInv, UNCHANGED counters,
         \A r \in Roles : Active(r)' = Active(r) /\ Waiting(r)' = Waiting(r)
  PROVE  CountInv'
<1>1. /\ Active("read")' = Active("read") /\ Waiting("read")' = Waiting("read")
      /\ Active("write")' = Active("write") /\ Waiting("write")' = Waiting("write")
  BY DEF Roles
<1>2. CountersExact'
  BY <1>1 DEF RWInv, CountersExact, counters
<1>3. RWExclusion'
  BY <1>1 DEF RWInv, RWExclusion
<1> QED BY <1>2, <1>3 DEF CountInv

LEMMA EnterWaitCount ==
  ASSUME RWInv, NEW t \in Thread, EnterWait(t)
  PROVE  CountInv'
<1>1. /\ Goto(t, "acqTest", "waitClear") /\ role' = role
      /\ pc \in [Thread -> Labels] /\ role[t] \in Roles
      /\ CountersExact /\ RWExclusion
  BY DEF RWInv, TypeOK, EnterWait
<1>2. "waitClear" \in WaitLabels /\ "waitClear" \notin InsideLabels
      /\ "acqTest" \notin WaitLabels /\ "acqTest" \notin InsideLabels
  BY DEF WaitLabels, InsideLabels
<1>3. CASE role[t] = "read"
  <2>1. "read" \in Roles /\ "write" \in Roles \ {"read"}
    BY DEF Roles
  <2>2. /\ Active("write")' = Active("write") /\ Waiting("write")' = Waiting("write")
        /\ Active("read")' = Active("read") \ {t} /\ t \notin Active("read")
        /\ Waiting("read")' = Waiting("read") \cup {t} /\ t \notin Waiting("read")
    BY <1>1, <1>2, <1>3, <2>1, ChangeClass
  <2>3. Active("read")' = Active("read")
    BY <2>2
  <2>4. IsFiniteSet(Waiting("read"))
    BY <2>1, CountedSetsFinite
  <2>5. Cardinality(Waiting("read")') = Cardinality(Waiting("read")) + 1
    BY <2>2, <2>4, CountOne
  <2>6. WR' = WR + 1 /\ UNCHANGED <<AR, AW, WW>>
    BY <1>3 DEF EnterWait
  <2>7. CountersExact'
    BY <1>1, <2>2, <2>3, <2>5, <2>6 DEF CountersExact
  <2>8. RWExclusion'
    BY <1>1, <2>2, <2>3 DEF RWExclusion
  <2> QED BY <2>7, <2>8 DEF CountInv
<1>4. CASE role[t] = "write"
  <2>1. "write" \in Roles /\ "read" \in Roles \ {"write"}
    BY DEF Roles
  <2>2. /\ Active("read")' = Active("read") /\ Waiting("read")' = Waiting("read")
        /\ Active("write")' = Active("write") \ {t} /\ t \notin Active("write")
        /\ Waiting("write")' = Waiting("write") \cup {t} /\ t \notin Waiting("write")
    BY <1>1, <1>2, <1>4, <2>1, ChangeClass
  <2>3. Active("write")' = Active("write")
    BY <2>2
  <2>4. IsFiniteSet(Waiting("write"))
    BY <2>1, CountedSetsFinite
  <2>5. Cardinality(Waiting("write")') = Cardinality(Waiting("write")) + 1
    BY <2>2, <2>4, CountOne
  <2>6. WW' = WW + 1 /\ UNCHANGED <<AR, AW, WR>>
    BY <1>4 DEF EnterWait
  <2>7. CountersExact'
    BY <1>1, <2>2, <2>3, <2>5, <2>6 DEF CountersExact
  <2>8. RWExclusion'
    BY <1>1, <2>2, <2>3 DEF RWExclusion
  <2> QED BY <2>7, <2>8 DEF CountInv
<1> QED BY <1>1, <1>3, <1>4 DEF Roles

LEMMA RewokenCount ==
  ASSUME RWInv, NEW t \in Thread, Rewoken(t)
  PROVE  CountInv'
<1>1. /\ Goto(t, "woken", "acqTest") /\ role' = role
      /\ pc \in [Thread -> Labels] /\ role[t] \in Roles
      /\ CountersExact /\ RWExclusion
  BY DEF RWInv, TypeOK, Rewoken
<1>2. "acqTest" \notin WaitLabels /\ "acqTest" \notin InsideLabels
      /\ "woken" \in WaitLabels /\ "woken" \notin InsideLabels
  BY DEF WaitLabels, InsideLabels
<1>3. CASE role[t] = "read"
  <2>1. "read" \in Roles /\ "write" \in Roles \ {"read"}
    BY DEF Roles
  <2>2. /\ Active("write")' = Active("write") /\ Waiting("write")' = Waiting("write")
        /\ Active("read")' = Active("read") \ {t} /\ t \notin Active("read")
        /\ Waiting("read")' = Waiting("read") \ {t} /\ t \in Waiting("read")
    BY <1>1, <1>2, <1>3, <2>1, ChangeClass
  <2>3. Active("read")' = Active("read")
    BY <2>2
  <2>4. IsFiniteSet(Waiting("read"))
    BY <2>1, CountedSetsFinite
  <2>5. Cardinality(Waiting("read")') = Cardinality(Waiting("read")) - 1
    BY <2>2, <2>4, CountOne
  <2>6. WR' = WR - 1 /\ UNCHANGED <<AR, AW, WW>>
    BY <1>3 DEF Rewoken
  <2>7. CountersExact'
    BY <1>1, <2>2, <2>3, <2>5, <2>6 DEF CountersExact
  <2>8. RWExclusion'
    BY <1>1, <2>2, <2>3 DEF RWExclusion
  <2> QED BY <2>7, <2>8 DEF CountInv
<1>4. CASE role[t] = "write"
  <2>1. "write" \in Roles /\ "read" \in Roles \ {"write"}
    BY DEF Roles
  <2>2. /\ Active("read")' = Active("read") /\ Waiting("read")' = Waiting("read")
        /\ Active("write")' = Active("write") \ {t} /\ t \notin Active("write")
        /\ Waiting("write")' = Waiting("write") \ {t} /\ t \in Waiting("write")
    BY <1>1, <1>2, <1>4, <2>1, ChangeClass
  <2>3. Active("write")' = Active("write")
    BY <2>2
  <2>4. IsFiniteSet(Waiting("write"))
    BY <2>1, CountedSetsFinite
  <2>5. Cardinality(Waiting("write")') = Cardinality(Waiting("write")) - 1
    BY <2>2, <2>4, CountOne
  <2>6. WW' = WW - 1 /\ UNCHANGED <<AR, AW, WR>>
    BY <1>4 DEF Rewoken
  <2>7. CountersExact'
    BY <1>1, <2>2, <2>3, <2>5, <2>6 DEF CountersExact
  <2>8. RWExclusion'
    BY <1>1, <2>2, <2>3 DEF RWExclusion
  <2> QED BY <2>7, <2>8 DEF CountInv
<1> QED BY <1>1, <1>3, <1>4 DEF Roles

(* Who enters finds the sets its test looked at empty, and the step is one *)
(* of ReadersWriters.                                                      *)
LEMMA EnterCount ==
  ASSUME RWInv, NEW t \in Thread, Enter(t)
  PROVE  CountInv' /\ (RW!EnterReader(t) \/ RW!EnterWriter(t))
<1>1. /\ Goto(t, "acqTest", "inClear") /\ role' = role
      /\ pc \in [Thread -> Labels] /\ role[t] \in Roles
      /\ CountersExact /\ RWExclusion
      /\ AR \in Nat /\ AW \in Nat /\ WW \in Nat
  BY DEF RWInv, TypeOK, Enter
<1>2. "inClear" \notin WaitLabels /\ "inClear" \in InsideLabels
      /\ "acqTest" \notin WaitLabels /\ "acqTest" \notin InsideLabels
  BY DEF WaitLabels, InsideLabels
<1>3. /\ IsFiniteSet(Active("read")) /\ IsFiniteSet(Active("write"))
      /\ "read" \in Roles /\ "write" \in Roles
  BY CountedSetsFinite DEF Roles
<1>4. /\ AW = 0 => Active("write") = {}
      /\ AR = 0 => Active("read") = {}
  BY <1>1, <1>3, CountOne DEF CountersExact
<1>5. CASE role[t] = "read"
  <2>1. "write" \in Roles \ {"read"}
    BY DEF Roles
  <2>2. /\ Active("write")' = Active("write") /\ Waiting("write")' = Waiting("write")
        /\ Active("read")' = Active("read") \cup {t} /\ t \notin Active("read")
        /\ Waiting("read")' = Waiting("read") \ {t} /\ t \notin Waiting("read")
    BY <1>1, <1>2, <1>3, <1>5, <2>1, ChangeClass
  <2>3. Waiting("read")' = Waiting("read")
    BY <2>2
  <2>4. Cardinality(Active("read")') = Cardinality(Active("read")) + 1
    BY <2>2, <1>3, CountOne
  <2>5. AR' = AR + 1 /\ UNCHANGED <<WR, AW, WW>> /\ AW + WW = 0
    BY <1>1, <1>5 DEF Enter, MustWait
  <2>6. Active("write") = {} /\ Active("write")' = {}
    BY <1>1, <1>4, <2>2, <2>5
  <2>7. CountersExact'
    BY <1>1, <2>2, <2>3, <2>4, <2>5 DEF CountersExact
  <2>8. RWExclusion'
    BY <2>6 DEF RWExclusion
  <2>9. RW!EnterReader(t)
    BY <2>2, <2>6 DEF RW!EnterReader
  <2> QED BY <2>7, <2>8, <2>9 DEF CountInv
<1>6. CASE role[t] = "write"
  <2>1. "read" \in Roles \ {"write"}
    BY DEF Roles
  <2>2. /\ Active("read")' = Active("read") /\ Waiting("read")' = Waiting("read")
        /\ Active("write")' = Active("write") \cup {t} /\ t \notin Active("write")
        /\ Waiting("write")' = Waiting("write") \ {t} /\ t \notin Waiting("write")
    BY <1>1, <1>2, <1>3, <1>6, <2>1, ChangeClass
  <2>3. Waiting("write")' = Waiting("write")
    BY <2>2
  <2>4. Cardinality(Active("write")') = Cardinality(Active("write")) + 1
    BY <2>2, <1>3, CountOne
  <2>5. AW' = AW + 1 /\ UNCHANGED <<WR, AR, WW>> /\ AR + AW = 0
    BY <1>1, <1>6 DEF Enter, MustWait
  <2>6. /\ Active("write") = {} /\ Active("read") = {}
        /\ Active("write")' = {t} /\ Active("read")' = {}
    BY <1>1, <1>4, <2>2, <2>5
  <2>7. CountersExact'
    BY <1>1, <2>2, <2>3, <2>4, <2>5 DEF CountersExact
  <2>8. RWExclusion'
    BY <2>6 DEF RWExclusion
  <2>9. RW!EnterWriter(t)
    BY <2>2, <2>6 DEF RW!EnterWriter
  <2> QED BY <2>7, <2>8, <2>9 DEF CountInv
<1> QED BY <1>1, <1>5, <1>6 DEF Roles

(* Who leaves was inside in the role it announces.                         *)
LEMMA ReleaseCount ==
  ASSUME RWInv, NEW t \in Thread, ReleaseReader(t) \/ ReleaseWriter(t)
  PROVE  CountInv' /\ RW!Leave(t)
<1>1. /\ Goto(t, "relBody", "outClear") /\ role' = role
      /\ pc \in [Thread -> Labels] /\ role[t] \in Roles
      /\ CountersExact /\ RWExclusion
  BY DEF RWInv, TypeOK, ReleaseReader, ReleaseWriter
<1>2. "outClear" \notin WaitLabels /\ "outClear" \notin InsideLabels
      /\ "relBody" \notin WaitLabels /\ "relBody" \in InsideLabels
  BY DEF WaitLabels, InsideLabels
<1>3. /\ IsFiniteSet(Active("read")) /\ IsFiniteSet(Active("write"))
      /\ "read" \in Roles /\ "write" \in Roles
  BY CountedSetsFinite DEF Roles
<1>4. CASE role[t] = "read"
  <2>1. "write" \in Roles \ {"read"}
    BY DEF Roles
  <2>2. /\ Active("write")' = Active("write") /\ Waiting("write")' = Waiting("write")
        /\ Active("read")' = Active("read") \ {t} /\ t \in Active("read")
        /\ Waiting("read")' = Waiting("read") \ {t} /\ t \notin Waiting("read")
    BY <1>1, <1>2, <1>3, <1>4, <2>1, ChangeClass
  <2>3. Waiting("read")' = Waiting("read")
    BY <2>2
  <2>4. Cardinality(Active("read")') = Cardinality(Active("read")) - 1
    BY <2>2, <1>3, CountOne
  <2>5. AR' = AR - 1 /\ UNCHANGED <<WR, AW, WW>>
    BY <1>4 DEF ReleaseReader, ReleaseWriter
  <2>6. t \notin Active("write")
    BY <1>4 DEF Active
  <2>7. CountersExact'
    BY <1>1, <2>2, <2>3, <2>4, <2>5 DEF CountersExact
  <2>8. RWExclusion'
    BY <1>1, <2>2 DEF RWExclusion
  <2>9. RW!Leave(t)
    BY <2>2, <2>6 DEF RW!Leave
  <2> QED BY <2>7, <2>8, <2>9 DEF CountInv
<1>5. CASE role[t] = "write"
  <2>1. "read" \in Roles \ {"write"}
    BY DEF Roles
  <2>2. /\ Active("read")' = Active("read") /\ Waiting("read")' = Waiting("read")
        /\ Active("write")' = Active("write") \ {t} /\ t \in Active("write")
        /\ Waiting("write")' = Waiting("write") \ {t} /\ t \notin Waiting("write")
    BY <1>1, <1>2, <1>3, <1>5, <2>1, ChangeClass
  <2>3. Waiting("write")' = Waiting("write")
    BY <2>2
  <2>4. Cardinality(Active("write")') = Cardinality(Active("write")) - 1
    BY <2>2, <1>3, CountOne
  <2>5. AW' = AW - 1 /\ UNCHANGED <<WR, AR, WW>>
    BY <1>5 DEF ReleaseReader, ReleaseWriter
  <2>6. t \notin Active("read")
    BY <1>5 DEF Active
  <2>7. CountersExact'
    BY <1>1, <2>2, <2>3, <2>4, <2>5 DEF CountersExact
  <2>8. RWExclusion'
    BY <1>1, <2>2 DEF RWExclusion
  <2>9. RW!Leave(t)
    BY <2>2, <2>6 DEF RW!Leave
  <2> QED BY <2>7, <2>8, <2>9 DEF CountInv
<1> QED BY <1>1, <1>4, <1>5 DEF Roles

-----------------------------------------------------------------------------
(* The part of the invariant about the queues, the waiters' semaphores and *)
(* the control state.                                                      *)
RestOK ==
  /\ holder \in Thread \cup {NoThread}
  /\ queue \in [Roles -> Seq(Thread)]
  /\ signalled \in [Thread -> Nat]
  /\ pc \in [Thread -> Labels]
  /\ role \in [Thread -> Roles]
  /\ left \in [Thread -> Nat]

(* The counters are naturals because they are cardinalities.               *)
LEMMA CountersNat ==
  CountersExact => AR \in Nat /\ WR \in Nat /\ AW \in Nat /\ WW \in Nat
<1>1. \A r \in Roles : /\ Cardinality(Active(r)) \in Nat
                       /\ Cardinality(Waiting(r)) \in Nat
  BY CountedSetsFinite, FS_CardinalityType
<1> QED BY <1>1 DEF CountersExact, Roles

LEMMA CountersNatPrime ==
  CountersExact' => (AR \in Nat /\ WR \in Nat /\ AW \in Nat /\ WW \in Nat)'
<1>1. CountersExact => AR \in Nat /\ WR \in Nat /\ AW \in Nat /\ WW \in Nat
  BY CountersNat
<1> QED BY <1>1, PTL

LEMMA Assemble ==
  ASSUME RestOK', GuardInv' /\ value' \in 0..1, CountInv'
  PROVE  RWInv'
BY CountersNatPrime
   DEF RestOK, GuardInv, CountInv, RWInv, TypeOK

(* cond_signal() and cond_broadcast() keep the types.                      *)
LEMMA SignalTypes ==
  ASSUME RWInv, NEW r \in Roles,
         CondSignal(r) \/ CondBroadcast(r) \/ UNCHANGED <<queue, signalled>>
  PROVE  queue' \in [Roles -> Seq(Thread)] /\ signalled' \in [Thread -> Nat]
<1>1. queue \in [Roles -> Seq(Thread)] /\ signalled \in [Thread -> Nat]
  BY DEF RWInv, TypeOK
<1>2. queue[r] \in Seq(Thread)
  BY <1>1
<1>3. CASE CondSignal(r)
  <2>1. CASE queue[r] # <<>>
    <3>1. Head(queue[r]) \in Thread /\ Tail(queue[r]) \in Seq(Thread)
      BY <1>2, <2>1
    <3>2. signalled' = [signalled EXCEPT ![Head(queue[r])] = @ + 1]
          /\ queue' = [queue EXCEPT ![r] = Tail(@)]
      BY <1>3, <2>1 DEF CondSignal
    <3>3. queue' \in [Roles -> Seq(Thread)]
      BY <1>1, <3>1, <3>2
    <3>4. signalled' \in [Thread -> Nat]
      BY <1>1, <3>1, <3>2
    <3> QED BY <3>3, <3>4
  <2>2. CASE queue[r] = <<>>
    BY <1>1, <1>3, <2>2 DEF CondSignal
  <2> QED BY <2>1, <2>2
<1>4. CASE CondBroadcast(r)
  <2>1. <<>> \in Seq(Thread)
    OBVIOUS
  <2>2. \A t \in Thread : signalled[t] \in Nat /\ signalled[t] + 1 \in Nat
    BY <1>1
  <2>3. queue' \in [Roles -> Seq(Thread)]
    BY <1>1, <1>4, <2>1 DEF CondBroadcast
  <2>4. signalled' \in [Thread -> Nat]
    <3> DEFINE woken(t) == \E i \in 1..Len(queue[r]) : queue[r][i] = t
    <3>1. signalled' = [t \in Thread |-> IF woken(t) THEN signalled[t] + 1
                                                    ELSE signalled[t]]
      BY <1>4 DEF CondBroadcast
    <3> HIDE DEF woken
    <3> QED BY <2>2, <3>1
  <2> QED BY <2>3, <2>4
<1> QED BY <1>1, <1>3, <1>4

(* A move of pc keeps its type.                                            *)
LEMMA GotoType ==
  ASSUME pc \in [Thread -> Labels], NEW t \in Thread, NEW from, NEW to \in Labels,
         Goto(t, from, to)
  PROVE  pc' \in [Thread -> Labels]
BY DEF Goto

(* One step of the guard lock.                                             *)
LEMMA LockStepInv ==
  ASSUME RWInv, NEW t \in Thread, LockStep(t)
  PROVE  /\ RWInv'
         /\ \A r \in Roles : Active(r)' = Active(r)
<1> USE DEF WaitLabels, InsideLabels, Labels, HolderLabels, GuardLabels
<1>0. /\ pc \in [Thread -> Labels] /\ role \in [Thread -> Roles]
      /\ RestOK
  BY DEF RWInv, TypeOK, RestOK
<1>1. UNCHANGED <<queue, signalled, counters, role, left>>
  BY DEF LockStep, LockDown, LockSetHolder, LockClearHolder, LockUp
<1>2. PICK from \in Labels, to \in Labels :
        /\ Goto(t, from, to)
        /\ from \in InsideLabels <=> to \in InsideLabels
        /\ from \in WaitLabels <=> to \in WaitLabels
  BY DEF LockStep, LockDown, LockSetHolder, LockClearHolder, LockUp
<1>3. \A r \in Roles : Active(r)' = Active(r) /\ Waiting(r)' = Waiting(r)
  BY <1>0, <1>1, <1>2, SameClass
<1>4. CountInv'
  BY <1>1, <1>3, CountStay
<1>5. holder' \in Thread \cup {NoThread}
  BY <1>0 DEF RestOK, LockStep, LockDown, LockSetHolder, LockClearHolder, LockUp
<1>6. pc' \in [Thread -> Labels]
  BY <1>0, <1>2, GotoType
<1>7. RestOK'
  BY <1>0, <1>1, <1>5, <1>6 DEF RestOK
<1>8. GuardInv' /\ value' \in 0..1
  <2>1. CASE \/ LockDown(t, "acqDown", "acqHold")
             \/ LockDown(t, "waitLock", "waitHold")
             \/ LockDown(t, "relDown", "relHold")
    BY <2>1, GuardDown
  <2>2. CASE \/ LockSetHolder(t, "acqHold", "acqTest")
             \/ LockSetHolder(t, "waitHold", "woken")
             \/ LockSetHolder(t, "relHold", "relBody")
    BY <2>2, GuardSetHolder
  <2>3. CASE \/ LockClearHolder(t, "waitClear", "waitUp")
             \/ LockClearHolder(t, "inClear", "inUp")
             \/ LockClearHolder(t, "outClear", "outUp")
    BY <2>3, GuardClearHolder
  <2>4. CASE \/ LockUp(t, "waitUp", "waitDown")
             \/ LockUp(t, "inUp", "inside")
             \/ LockUp(t, "outUp", "out")
    BY <2>4, GuardUp
  <2> QED BY <2>1, <2>2, <2>3, <2>4 DEF LockStep
<1> QED BY <1>3, <1>4, <1>7, <1>8, Assemble

(* The steps that touch neither the guard lock nor the counters.           *)
LEMMA QuietInv ==
  ASSUME RWInv, NEW t \in Thread, Request(t) \/ CondDown(t) \/ Leave(t)
  PROVE  /\ RWInv'
         /\ \A r \in Roles : Active(r)' = Active(r)
<1> USE DEF WaitLabels, InsideLabels, Labels, HolderLabels, GuardLabels
<1>0. /\ pc \in [Thread -> Labels] /\ role \in [Thread -> Roles]
      /\ RestOK
  BY DEF RWInv, TypeOK, RestOK
<1>1. UNCHANGED <<value, holder, queue, counters>>
  BY DEF Request, CondDown, Leave
<1>2. PICK from \in Labels, to \in Labels :
        /\ Goto(t, from, to)
        /\ from \in InsideLabels <=> to \in InsideLabels
        /\ from \in WaitLabels <=> to \in WaitLabels
        /\ from \in HolderLabels <=> to \in HolderLabels
        /\ from \in GuardLabels <=> to \in GuardLabels
        /\ \/ role' = role
           \/ /\ from \notin InsideLabels \cup WaitLabels
              /\ \E r \in Roles : role' = [role EXCEPT ![t] = r]
  <2>1. CASE Request(t)
    <3>1. Goto(t, "out", "acqDown") /\ \E r \in Roles : role' = [role EXCEPT ![t] = r]
      BY <2>1 DEF Request
    <3> WITNESS "out" \in Labels, "acqDown" \in Labels
    <3> QED BY <3>1
  <2>2. CASE CondDown(t)
    BY <2>2 DEF CondDown
  <2>3. CASE Leave(t)
    BY <2>3 DEF Leave
  <2> QED BY <2>1, <2>2, <2>3
<1>3. \A r \in Roles : Active(r)' = Active(r) /\ Waiting(r)' = Waiting(r)
  BY <1>0, <1>2, SameClass
<1>4. CountInv'
  BY <1>1, <1>3, CountStay
<1>5. GuardInv' /\ value' \in 0..1
  BY <1>1, <1>2, GuardStay
<1>6. pc' \in [Thread -> Labels]
  BY <1>0, <1>2, GotoType
<1>7. role' \in [Thread -> Roles]
  BY <1>0, <1>2
<1>8. left' \in [Thread -> Nat] /\ signalled' \in [Thread -> Nat]
  <2>1. CASE Request(t)
    BY <1>0, <2>1 DEF RestOK, Request
  <2>2. CASE CondDown(t)
    BY <1>0, <2>2 DEF RestOK, CondDown
  <2>3. CASE Leave(t)
    BY <1>0, <2>3 DEF RestOK, Leave
  <2> QED BY <2>1, <2>2, <2>3
<1>9. RestOK'
  BY <1>0, <1>1, <1>6, <1>7, <1>8 DEF RestOK
<1> QED BY <1>3, <1>4, <1>5, <1>9, Assemble

(* The steps inside the guarded section.                                   *)
LEMMA GuardedInv ==
  ASSUME RWInv, NEW t \in Thread,
         \/ EnterWait(t) \/ Enter(t) \/ Rewoken(t)
         \/ ReleaseReader(t) \/ ReleaseWriter(t)
  PROVE  RWInv'
<1>0. pc \in [Thread -> Labels] /\ RestOK /\ RWInv
  BY DEF RWInv, TypeOK, RestOK
<1>1. CountInv'
  BY EnterWaitCount, EnterCount, RewokenCount, ReleaseCount
<1>2. UNCHANGED <<value, holder, role, left>>
  BY DEF EnterWait, Enter, Rewoken, ReleaseReader, ReleaseWriter
<1>3. PICK from \in HolderLabels, to \in HolderLabels : Goto(t, from, to)
  BY DEF EnterWait, Enter, Rewoken, ReleaseReader, ReleaseWriter, HolderLabels
<1>4. GuardInv' /\ value' \in 0..1
  BY <1>2, <1>3, GuardStay DEF GuardLabels
<1>5. HolderLabels \subseteq Labels
  BY DEF HolderLabels, Labels, WaitLabels, InsideLabels
<1>6. pc' \in [Thread -> Labels]
  BY <1>0, <1>3, <1>5, GotoType
<1>7. queue' \in [Roles -> Seq(Thread)] /\ signalled' \in [Thread -> Nat]
  <2>1. "read" \in Roles /\ "write" \in Roles
    BY DEF Roles
  <2>2. CASE EnterWait(t)
    <3>1. role[t] \in Roles
      BY <1>0 DEF RestOK
    <3>2. Append(queue[role[t]], t) \in Seq(Thread)
      BY <1>0, <3>1 DEF RestOK
    <3> QED BY <1>0, <2>2, <3>1, <3>2 DEF EnterWait, CondEnqueue, RestOK
  <2>3. CASE Enter(t) \/ Rewoken(t)
    BY <1>0, <2>3 DEF Enter, Rewoken, RestOK
  <2>4. CASE ReleaseReader(t)
    <3>1. CondSignal("write") \/ UNCHANGED <<queue, signalled>>
      BY <2>4 DEF ReleaseReader
    <3> QED BY <1>0, <2>1, <3>1, SignalTypes
  <2>5. CASE ReleaseWriter(t)
    <3>1. CondSignal("write") \/ CondBroadcast("read") \/ UNCHANGED <<queue, signalled>>
      BY <2>5 DEF ReleaseWriter
    <3> QED BY <1>0, <2>1, <3>1, SignalTypes
  <2> QED BY <2>2, <2>3, <2>4, <2>5
<1>8. RestOK'
  BY <1>0, <1>2, <1>6, <1>7 DEF RestOK
<1> QED BY <1>1, <1>4, <1>8, Assemble

-----------------------------------------------------------------------------
LEMMA InitInv ==
  Init => RWInv /\ Active("read") = {} /\ Active("write") = {}
<1> SUFFICES ASSUME Init PROVE RWInv /\ Active("read") = {} /\ Active("write") = {}
  OBVIOUS
<1>1. \A t \in Thread : /\ pc[t] = "out" /\ "out" \notin GuardLabels
                        /\ "out" \notin HolderLabels
                        /\ "out" \notin InsideLabels /\ "out" \notin WaitLabels
  BY DEF Init, GuardLabels, HolderLabels, InsideLabels, WaitLabels
<1>2. \A r \in Roles : Active(r) = {} /\ Waiting(r) = {}
  BY <1>1 DEF Active, Waiting
<1>3. Active("read") = {} /\ Active("write") = {}
      /\ Waiting("read") = {} /\ Waiting("write") = {}
  BY <1>2 DEF Roles
<1>4. Cardinality({}) = 0
  BY FS_EmptySet
<1>5. CountersExact
  BY <1>3, <1>4 DEF Init, CountersExact
<1>6. RWExclusion
  BY <1>3 DEF RWExclusion
<1>7. GuardTaken /\ GuardExclusion
  BY <1>1 DEF GuardTaken, GuardExclusion
<1>8. HolderExact
  BY <1>1, RWThreads DEF Init, HolderExact
<1>9. TypeOK
  BY RWBound DEF Init, TypeOK, Roles, Labels
<1> QED BY <1>3, <1>5, <1>6, <1>7, <1>8, <1>9 DEF RWInv

LEMMA NextInv ==
  RWInv /\ [Next]_vars => RWInv' /\ [RW!Next]_<<Active("read"), Active("write")>>
<1> SUFFICES ASSUME RWInv, [Next]_vars
             PROVE  RWInv' /\ [RW!Next]_<<Active("read"), Active("write")>>
  OBVIOUS
<1>1. CASE UNCHANGED vars
  <2>1. UNCHANGED <<Active("read"), Active("write"), Waiting("read"), Waiting("write")>>
    BY <1>1 DEF vars, Active, Waiting
  <2>2. CountersExact' /\ RWExclusion'
    BY <1>1, <2>1 DEF vars, RWInv, CountersExact, RWExclusion
  <2>3. (TypeOK /\ GuardTaken /\ GuardExclusion /\ HolderExact)'
    BY <1>1 DEF vars, RWInv, TypeOK, GuardTaken, GuardExclusion, HolderExact
  <2> QED BY <2>1, <2>2, <2>3 DEF RWInv
<1>2. ASSUME NEW t \in Thread, Request(t) \/ Step(t)
      PROVE  RWInv' /\ [RW!Next]_<<Active("read"), Active("write")>>
  <2>1. CASE LockStep(t) \/ Request(t) \/ CondDown(t) \/ Leave(t)
    <3>1. RWInv' /\ \A r \in Roles : Active(r)' = Active(r)
      BY <2>1, LockStepInv, QuietInv
    <3> QED BY <3>1 DEF Roles
  <2>2. CASE Enter(t)
    BY <2>2, GuardedInv, EnterCount DEF RW!Next
  <2>3. CASE ReleaseReader(t) \/ ReleaseWriter(t)
    BY <2>3, GuardedInv, ReleaseCount DEF RW!Next
  <2>4. CASE EnterWait(t) \/ Rewoken(t)
    <3>1. RWInv'
      BY <2>4, GuardedInv
    <3>2. PICK from, to : /\ Goto(t, from, to)
                          /\ from \notin InsideLabels /\ to \notin InsideLabels
      BY <2>4 DEF EnterWait, Rewoken, InsideLabels
    <3>3. role' = role /\ pc \in [Thread -> Labels]
      BY <2>4 DEF EnterWait, Rewoken, RWInv, TypeOK
    <3>4. \A u \in Thread : pc'[u] \in InsideLabels <=> pc[u] \in InsideLabels
      BY <3>2, <3>3 DEF Goto
    <3>5. UNCHANGED <<Active("read"), Active("write")>>
      BY <3>3, <3>4 DEF Active
    <3> QED BY <3>1, <3>5
  <2> QED BY <1>2, <2>1, <2>2, <2>3, <2>4 DEF Step
<1>3. CASE Next
  BY <1>1, <1>2, <1>3 DEF Next, Terminating
<1> QED BY <1>1, <1>3

(* RWInv is an inductive invariant of the lock, for any number of threads  *)
(* and of requests.                                                        *)
THEOREM RWInvariant == Spec => []RWInv
<1>1. Init => RWInv
  BY InitInv
<1>2. RWInv /\ [Next]_vars => RWInv'
  BY NextInv
<1> QED BY <1>1, <1>2, PTL DEF Spec

(* A writer holding the lock excludes every other thread.                  *)
THEOREM RWExclusionCorrect == Spec => []RWExclusion
<1>1. RWInv => RWExclusion
  BY DEF RWInv
<1> QED BY <1>1, RWInvariant, PTL

(* AR, AW, WR and WW are exact whenever they are read.                     *)
THEOREM CountersCorrect == Spec => []CountersExact
<1>1. RWInv => CountersExact
  BY DEF RWInv
<1> QED BY <1>1, RWInvariant, PTL

(* struct lock excludes, and the ownership assertions of lock_acquire(),   *)
(* lock_release(), cond_wait() and cond_signal() never fail.               *)
THEOREM GuardCorrect == Spec => []Guarded
<1>1. RWInv => Guarded
  BY DEF RWInv, HolderExact, Guarded, GuardHeld, HolderLabels
<1> QED BY <1>1, RWInvariant, PTL

(* The lock of synch.c implements the abstract readers-writers lock.       *)
THEOREM Refinement == Spec => ImplementsRW
<1>1. Init => RW!Init
  BY InitInv DEF RW!Init
<1>2. RWInv /\ [Next]_vars => [RW!Next]_<<Active("read"), Active("write")>>
  BY NextInv
<1> QED BY <1>1, <1>2, RWInvariant, PTL DEF Spec, RW!Spec, ImplementsRW

(* Only rw_lock_acquire()'s last test takes a reader inside.               *)
LEMMA ReaderSteps ==
  ASSUME RWInv, NEW t \in Thread, Request(t) \/ Step(t)
  PROVE  (Active("read")' \subseteq Active("read")) \/ (Enter(t) /\ role[t] = "read")
<1>0. pc \in [Thread -> Labels] /\ role \in [Thread -> Roles]
  BY DEF RWInv, TypeOK
<1>1. ASSUME NEW from, NEW to, Goto(t, from, to), role' = role,
             to \in InsideLabels => from \in InsideLabels
      PROVE  Active("read")' \subseteq Active("read")
  BY <1>0, <1>1 DEF Goto, Active
<1>2. CASE LockStep(t)
  BY <1>1, <1>2 DEF LockStep, LockDown, LockSetHolder, LockClearHolder, LockUp, InsideLabels
<1>3. CASE CondDown(t) \/ EnterWait(t) \/ Rewoken(t) \/ Leave(t)
  BY <1>1, <1>3 DEF CondDown, EnterWait, Rewoken, Leave, InsideLabels
<1>4. CASE ReleaseReader(t) \/ ReleaseWriter(t)
  BY <1>1, <1>4 DEF ReleaseReader, ReleaseWriter, InsideLabels
<1>5. CASE Enter(t)
  <2>1. CASE role[t] = "read"
    BY <1>5, <2>1
  <2>2. CASE role[t] # "read"
    <3>1. role' = role /\ pc' = [pc EXCEPT ![t] = "inClear"]
      BY <1>5 DEF Enter, Goto
    <3> QED BY <1>0, <2>2, <3>1 DEF Active
  <2> QED BY <2>1, <2>2
<1>6. CASE Request(t)
  <2>1. PICK r \in Roles : role' = [role EXCEPT ![t] = r]
    BY <1>6 DEF Request
  <2>2. pc' = [pc EXCEPT ![t] = "acqDown"]
    BY <1>6 DEF Request, Goto
  <2> QED BY <1>0, <2>1, <2>2 DEF Active, InsideLabels
<1> QED BY <1>2, <1>3, <1>4, <1>5, <1>6 DEF Step

(* Writers come first: while one waits, from the moment it counted itself  *)
(* in WW until it has the guard lock again, no reader gets inside.         *)
THEOREM WritersComeFirst == Spec => WriterFirst
<1>1. RWInv /\ [Next]_vars
        => [Waiting("write") # {} => Active("read")' \subseteq Active("read")]_vars
  <2> SUFFICES ASSUME RWInv, Next, Waiting("write") # {}
               PROVE  Active("read")' \subseteq Active("read")
    OBVIOUS
  <2>1. CASE UNCHANGED vars
    BY <2>1 DEF Active, vars
  <2>2. ASSUME NEW t \in Thread, Request(t) \/ Step(t)
        PROVE  Active("read")' \subseteq Active("read")
    <3>1. ASSUME Enter(t), role[t] = "read" PROVE FALSE
      <4>1. ~(AW + WW > 0)
        BY <3>1 DEF Enter, MustWait
      <4>2. AW \in Nat /\ WW \in Nat /\ WW = Cardinality(Waiting("write"))
        BY DEF RWInv, TypeOK, CountersExact
      <4>3. Cardinality(Waiting("write")) = 0
        BY <4>1, <4>2
      <4>4. IsFiniteSet(Waiting("write"))
        BY CountedSetsFinite DEF Roles
      <4>5. Waiting("write") = {}
        BY <4>3, <4>4, FS_EmptySet
      <4> QED BY <4>5
    <3> QED BY <2>2, <3>1, ReaderSteps
  <2> QED BY <2>1, <2>2 DEF Next, Terminating
<1> QED BY <1>1, RWInvariant, PTL DEF Spec, WriterFirst
=============================================================================
