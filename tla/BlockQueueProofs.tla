-------------------------- MODULE BlockQueueProofs --------------------------
(***************************************************************************)
(* Proofs about BlockQueue, for any capacity, any threads and any items.   *)
(***************************************************************************)
EXTENDS BlockQueue, SequenceTheorems, TLAPS

-----------------------------------------------------------------------------
(* Indices *)

(* An index that may have run past the end of the array, brought back. *)
Wrap(x) == IF x >= m_max_size THEN x - m_max_size ELSE x

(* The remainder the code computes, for the indices that occur. *)
LEMMA ModWrap == ASSUME NEW x \in 0..(2 * m_max_size - 1) PROVE x % m_max_size = Wrap(x)
<1>1. CASE x < m_max_size
  BY <1>1, QueueAssumption DEF Wrap
<1>2. CASE x >= m_max_size
  BY <1>2, QueueAssumption DEF Wrap
<1>. QED  BY <1>1, <1>2, QueueAssumption

(* The slot of the i-th element after front. *)
Slot(front, i) == Wrap(front + i)

(* The n elements after front in a ring: Contents is the window of the     *)
(* current state.                                                          *)
Window(array, front, n) == [i \in 1..n |-> array[(front + i) % m_max_size]]

Arrays == [0..(m_max_size - 1) -> Items \cup {NoItem}]

(* A window, without the remainder. *)
LEMMA WindowSlots ==
    ASSUME NEW a \in Arrays, NEW f \in -1..(m_max_size - 1), NEW n \in 0..m_max_size
    PROVE  /\ Window(a, f, n) = [i \in 1..n |-> a[Slot(f, i)]]
           /\ \A i \in 1..n : Slot(f, i) \in 0..(m_max_size - 1)
           /\ Window(a, f, n) \in Seq(Items \cup {NoItem}) /\ Len(Window(a, f, n)) = n
<1>1. \A i \in 1..n : f + i \in 0..(2 * m_max_size - 1)
  BY QueueAssumption
<1>2. \A i \in 1..n : (f + i) % m_max_size = Slot(f, i)
  BY <1>1, ModWrap DEF Slot
<1>3. \A i \in 1..n : Slot(f, i) \in 0..(m_max_size - 1)
  BY <1>1, QueueAssumption DEF Slot, Wrap
<1>4. Window(a, f, n) = [i \in 1..n |-> a[Slot(f, i)]]
  BY <1>2 DEF Window
<1>. QED  BY <1>3, <1>4 DEF Arrays

(* Writing the slot after the last element appends to the window, unless   *)
(* the ring is full: no used slot is overwritten.                          *)
LEMMA WindowPush ==
    ASSUME NEW a \in Arrays, NEW f \in -1..(m_max_size - 1), NEW n \in 0..(m_max_size - 1),
           NEW x \in Items
    PROVE  Window([a EXCEPT ![Slot(f, n + 1)] = x], f, n + 1) = Append(Window(a, f, n), x)
<1>. DEFINE b == [a EXCEPT ![Slot(f, n + 1)] = x]
            w == Window(a, f, n)
            v == Window(b, f, n + 1)
<1>1. n \in 0..m_max_size /\ n + 1 \in 0..m_max_size /\ n + 1 \in 1..(n + 1)
  BY QueueAssumption
<1>2. /\ w = [i \in 1..n |-> a[Slot(f, i)]] /\ w \in Seq(Items \cup {NoItem}) /\ Len(w) = n
      /\ \A i \in 1..n : Slot(f, i) \in 0..(m_max_size - 1)
  BY <1>1, WindowSlots
<1>3. b \in Arrays
  BY DEF Arrays
<1>4. /\ v = [i \in 1..(n + 1) |-> b[Slot(f, i)]]
      /\ \A i \in 1..(n + 1) : Slot(f, i) \in 0..(m_max_size - 1)
      /\ v \in Seq(Items \cup {NoItem}) /\ Len(v) = n + 1
  BY <1>1, <1>3, WindowSlots
<1>5. \A i \in 1..n : Slot(f, i) # Slot(f, n + 1)
  BY QueueAssumption DEF Slot, Wrap
<1>6. \A i \in 1..n : v[i] = w[i]
  BY <1>1, <1>2, <1>4, <1>5 DEF Arrays
<1>7. v[n + 1] = x
  BY <1>1, <1>4 DEF Arrays
<1>. HIDE DEF v, w, b
<1>8. /\ Append(w, x) \in Seq(Items \cup {NoItem}) /\ Len(Append(w, x)) = n + 1
      /\ \A i \in 1..n : Append(w, x)[i] = w[i]
      /\ Append(w, x)[n + 1] = x
  BY <1>2, AppendProperties
<1>9. \A i \in 1..(n + 1) : v[i] = Append(w, x)[i]
  BY <1>6, <1>7, <1>8
<1>10. v = Append(w, x)
  BY <1>4, <1>8, <1>9, SeqEqual
<1>. QED  BY <1>10 DEF v, w, b

(* Moving front to the first slot drops the head of the window. *)
LEMMA WindowPop ==
    ASSUME NEW a \in Arrays, NEW f \in -1..(m_max_size - 1), NEW n \in 1..m_max_size
    PROVE  /\ Window(a, Slot(f, 1), n - 1) = Tail(Window(a, f, n))
           /\ a[Slot(f, 1)] = Head(Window(a, f, n)) /\ Window(a, f, n) # <<>>
<1>. DEFINE w == Window(a, f, n)
            v == Window(a, Slot(f, 1), n - 1)
<1>1. n \in 0..m_max_size /\ n - 1 \in 0..m_max_size /\ 1 \in 1..n
  BY QueueAssumption
<1>2. /\ w = [i \in 1..n |-> a[Slot(f, i)]] /\ w \in Seq(Items \cup {NoItem}) /\ Len(w) = n
      /\ \A i \in 1..n : Slot(f, i) \in 0..(m_max_size - 1)
  BY <1>1, WindowSlots
<1>3. Slot(f, 1) \in -1..(m_max_size - 1)
  BY <1>1, <1>2
<1>4. /\ v = [i \in 1..(n - 1) |-> a[Slot(Slot(f, 1), i)]]
      /\ v \in Seq(Items \cup {NoItem}) /\ Len(v) = n - 1
  BY <1>1, <1>3, WindowSlots
<1>5. \A i \in 1..(n - 1) : Slot(Slot(f, 1), i) = Slot(f, i + 1) /\ i + 1 \in 1..n
  BY QueueAssumption DEF Slot, Wrap
<1>6. \A i \in 1..(n - 1) : v[i] = w[i + 1]
  BY <1>1, <1>2, <1>4, <1>5
<1>7. w[1] = a[Slot(f, 1)]
  BY <1>1, <1>2
<1>. HIDE DEF v, w
<1>8. /\ w # <<>> /\ Tail(w) \in Seq(Items \cup {NoItem}) /\ Len(Tail(w)) = n - 1
      /\ \A i \in 1..(n - 1) : Tail(w)[i] = w[i + 1]
      /\ Head(w) = w[1]
  <2>1. w \in Seq(Items \cup {NoItem}) /\ Len(w) = n /\ n # 0  BY <1>1, <1>2
  <2>2. w # <<>>  BY <2>1, EmptySeq
  <2>. QED  BY <2>1, <2>2, HeadTailProperties
<1>9. v = Tail(w)
  <2>1. Len(v) = Len(Tail(w)) /\ \A i \in 1..Len(v) : v[i] = Tail(w)[i]
    BY <1>4, <1>6, <1>8
  <2>. QED  BY <1>4, <1>8, <2>1, SeqEqual
<1>. QED  BY <1>7, <1>8, <1>9 DEF v, w

-----------------------------------------------------------------------------
(* The invariant *)

(* m_back is the slot of the last element; it equals m_front when the      *)
(* queue is empty.                                                         *)
Linked == m_back = Slot(m_front, m_size)

Inv == TypeOK /\ Linked /\ BlockedOnlyWhenEmpty

(* The constructor establishes Inv. *)
LEMMA InvInit == Init => Inv
  BY QueueAssumption
     DEF Init, Inv, TypeOK, Linked, Slot, Wrap, BlockedOnlyWhenEmpty

(* A push moves m_back to the slot after the last element. *)
LEMMA PushBackSlot ==
    ASSUME Inv, NEW t \in Threads, NEW x \in Items, Push(t, x)
    PROVE  /\ m_back' = Slot(m_front, m_size + 1) /\ m_back' \in 0..(m_max_size - 1)
           /\ m_size + 1 \in 1..m_max_size /\ m_size' = m_size + 1
<1>1. /\ m_size \in 0..(m_max_size - 1) /\ m_front \in -1..(m_max_size - 1)
      /\ m_back \in -1..(m_max_size - 1) /\ m_back = Wrap(m_front + m_size)
  BY QueueAssumption DEF Inv, TypeOK, Linked, Slot, Push
<1>2. m_back' = Wrap(m_back + 1)
  BY <1>1, QueueAssumption, ModWrap DEF Push
<1>. QED  BY <1>1, <1>2, QueueAssumption DEF Push, Slot, Wrap

(* A pop moves m_front to the slot of the first element. *)
LEMMA TakeSlot ==
    ASSUME Inv, NEW t \in Threads, Take(t)
    PROVE  /\ m_front' = Slot(m_front, 1) /\ m_front' \in 0..(m_max_size - 1)
           /\ m_size \in 1..m_max_size /\ m_size' = m_size - 1
<1>1. m_size \in 1..m_max_size /\ m_front \in -1..(m_max_size - 1)
  BY QueueAssumption DEF Inv, TypeOK, Take
<1>2. m_front' = Wrap(m_front + 1)
  BY <1>1, QueueAssumption, ModWrap DEF Take
<1>. QED  BY <1>1, <1>2, QueueAssumption DEF Take, Slot, Wrap

(* A pop keeps the ring part of the invariant. *)
LEMMA TakeRing ==
    ASSUME Inv, NEW t \in Threads, Take(t)
    PROVE  /\ m_array' \in [0..(m_max_size - 1) -> Items \cup {NoItem}]
           /\ m_size' \in 0..m_max_size
           /\ m_front' \in -1..(m_max_size - 1) /\ m_back' \in -1..(m_max_size - 1)
           /\ item' \in [Threads -> Items \cup {NoItem}]
           /\ Linked'
<1>1. /\ m_front' = Wrap(m_front + 1) /\ m_front' \in 0..(m_max_size - 1)
      /\ m_size \in 1..m_max_size /\ m_size' = m_size - 1 /\ m_back' = m_back
  BY TakeSlot DEF Slot, Take
<1>2. Linked'
  BY <1>1, QueueAssumption DEF Inv, TypeOK, Linked, Slot, Wrap
<1>3. item' \in [Threads -> Items \cup {NoItem}]
  BY <1>1 DEF Take, Inv, TypeOK
<1>. QED  BY <1>1, <1>2, <1>3, QueueAssumption DEF Take, Inv, TypeOK

(* Every step preserves Inv. *)
LEMMA InvStep == Inv /\ [Next]_vars => Inv'
<1>. SUFFICES ASSUME Inv, [Next]_vars PROVE Inv'
  OBVIOUS
<1>. USE DEF Outside, ring
<1>1. CASE UNCHANGED vars
  BY <1>1 DEF vars, Inv, TypeOK, Linked, Slot, Wrap, BlockedOnlyWhenEmpty
<1>2. ASSUME NEW t \in Threads, PushFull(t) \/ SpuriousWakeup(t) \/ PopTimeout(t)
                                \/ ResumeWait(t) \/ ResumeFails(t)
                                \/ \E isTimed \in BOOLEAN : PopWait(t, isTimed)
      PROVE Inv'
  <2>1. UNCHANGED <<ring, item>>
    BY <1>2 DEF PushFull, SpuriousWakeup, PopTimeout, ResumeWait, ResumeFails, PopWait
  <2>2. /\ waiting' \subseteq Threads /\ woken' \subseteq Threads /\ waiting' \cap woken' = {}
        /\ timed' \subseteq waiting' \cup woken'
    BY <1>2 DEF PushFull, SpuriousWakeup, PopTimeout, ResumeWait, ResumeFails, PopWait,
                Broadcast, Inv, TypeOK
  <2>3. BlockedOnlyWhenEmpty'
    BY <1>2, <2>1, QueueAssumption
       DEF PushFull, SpuriousWakeup, PopTimeout, ResumeWait, ResumeFails, PopWait,
           Broadcast, Inv, TypeOK, BlockedOnlyWhenEmpty
  <2>. QED  BY <2>1, <2>2, <2>3 DEF Inv, TypeOK, Linked, Slot, Wrap
<1>3. ASSUME NEW t \in Threads, NEW x \in Items, Push(t, x) PROVE Inv'
  <2>1. /\ m_back' = Slot(m_front, m_size + 1) /\ m_back' \in 0..(m_max_size - 1)
        /\ m_size' = m_size + 1 /\ m_size' \in 1..m_max_size
    BY <1>3, PushBackSlot
  <2>2. Linked'
    BY <1>3, <2>1 DEF Linked, Slot, Wrap, Push
  <2>3. m_array' \in [0..(m_max_size - 1) -> Items \cup {NoItem}]
    BY <1>3, <2>1 DEF Push, Inv, TypeOK
  <2>4. /\ waiting' = {} /\ woken' \subseteq Threads /\ timed' \subseteq waiting' \cup woken'
        /\ item' = item
    BY <1>3 DEF Push, Broadcast, Inv, TypeOK
  <2>. QED  BY <1>3, <2>1, <2>2, <2>3, <2>4, QueueAssumption
            DEF Push, Inv, TypeOK, BlockedOnlyWhenEmpty
<1>4. ASSUME NEW t \in Threads, Pop(t) \/ Resume(t) PROVE Inv'
  <2>1. Take(t) /\ waiting = {}
    BY <1>4, QueueAssumption DEF Pop, Resume, Take, Inv, TypeOK, BlockedOnlyWhenEmpty
  <2>2. waiting' = {} /\ woken' \subseteq Threads /\ timed' \subseteq woken'
    BY <1>4, <2>1 DEF Pop, Resume, Inv, TypeOK
  <2>. QED  BY <2>1, <2>2, TakeRing DEF Inv, TypeOK, BlockedOnlyWhenEmpty
<1>5. ASSUME NEW t \in Threads, Clear(t) PROVE Inv'
  BY <1>5, QueueAssumption DEF Clear, Inv, TypeOK, Linked, Slot, Wrap, BlockedOnlyWhenEmpty
<1>. QED  BY <1>1, <1>2, <1>3, <1>4, <1>5 DEF Next

-----------------------------------------------------------------------------
(* The refinement: every step of the ring is a step of the FIFO queue. *)

(* Contents is the window of the state. *)
LEMMA ContentsWindow == Contents = Window(m_array, m_front, m_size)
  BY DEF Contents, Window

(* push appends to Contents. *)
LEMMA PushRefines ==
    ASSUME Inv, NEW t \in Threads, NEW x \in Items, Push(t, x)
    PROVE  Fifo!Push(x)
<1>1. /\ m_array \in Arrays /\ m_front \in -1..(m_max_size - 1)
      /\ m_size \in 0..(m_max_size - 1) /\ m_size \in 0..m_max_size
  BY QueueAssumption DEF Push, Inv, TypeOK, Arrays
<1>2. /\ m_array' = [m_array EXCEPT ![Slot(m_front, m_size + 1)] = x]
      /\ m_front' = m_front /\ m_size' = m_size + 1 /\ item' = item
  BY PushBackSlot DEF Push
<1>3. Contents' = Window(m_array', m_front', m_size')
  BY DEF Contents, Window
<1>4. Contents' = Append(Contents, x)
  BY <1>1, <1>2, <1>3, ContentsWindow, WindowPush
<1>5. Len(Contents) = m_size
  BY <1>1, ContentsWindow, WindowSlots
<1>6. Len(Contents) < m_max_size
  BY <1>1, <1>5, QueueAssumption
<1>. QED  BY <1>2, <1>4, <1>6 DEF Fifo!Push

(* Both pops return the head of Contents and drop it. *)
LEMMA TakeRefines ==
    ASSUME Inv, NEW t \in Threads, Take(t)
    PROVE  Fifo!Pop(t)
<1>1. /\ m_array \in Arrays /\ m_front \in -1..(m_max_size - 1) /\ m_size \in 1..m_max_size
  BY TakeSlot DEF Inv, TypeOK, Arrays
<1>2. /\ m_array' = m_array /\ m_front' = Slot(m_front, 1) /\ m_size' = m_size - 1
      /\ item' = [item EXCEPT ![t] = m_array[Slot(m_front, 1)]]
  BY TakeSlot DEF Take
<1>3. Contents' = Window(m_array', m_front', m_size')
  BY DEF Contents, Window
<1>4. /\ Contents # <<>> /\ Contents' = Tail(Contents)
      /\ m_array[Slot(m_front, 1)] = Head(Contents)
  BY <1>1, <1>2, <1>3, ContentsWindow, WindowPop
<1>. QED  BY <1>2, <1>4 DEF Fifo!Pop

(* Every step of the ring is a step of the queue, or changes nothing. *)
LEMMA StepRefines == Inv /\ [Next]_vars => [Fifo!Next]_<<Contents, item>>
<1>. SUFFICES ASSUME Inv, [Next]_vars PROVE [Fifo!Next]_<<Contents, item>>
  OBVIOUS
<1>1. ASSUME NEW t \in Threads, NEW x \in Items, Push(t, x) PROVE Fifo!Next
  BY <1>1, PushRefines DEF Fifo!Next
<1>2. ASSUME NEW t \in Threads, Pop(t) \/ Resume(t) PROVE Fifo!Next
  BY <1>2, TakeRefines DEF Fifo!Next, Pop, Resume
<1>3. ASSUME NEW t \in Threads, Clear(t) PROVE Fifo!Next
  <2>1. Contents' = <<>> /\ item' = item
    BY <1>3 DEF Clear, Contents
  <2>. QED  BY <2>1 DEF Fifo!Next, Fifo!Clear
<1>4. ASSUME NEW t \in Threads,
             PushFull(t) \/ SpuriousWakeup(t) \/ PopTimeout(t) \/ ResumeWait(t)
             \/ ResumeFails(t) \/ \E isTimed \in BOOLEAN : PopWait(t, isTimed)
      PROVE  UNCHANGED <<Contents, item>>
  BY <1>4 DEF PushFull, SpuriousWakeup, PopTimeout, ResumeWait, ResumeFails, PopWait,
              ring, Contents
<1>5. CASE UNCHANGED vars
  BY <1>5 DEF vars, Contents
<1>. QED  BY <1>1, <1>2, <1>3, <1>4, <1>5 DEF Next

-----------------------------------------------------------------------------
(* Theorems *)

(* The inductive invariant holds in every state of the queue. *)
THEOREM Invariance == Spec => []Inv
  BY InvInit, InvStep, PTL DEF Spec

(* The indices stay inside the array and the size inside its bounds, for   *)
(* every capacity the constructor accepts.                                 *)
THEOREM TypeCorrect == Spec => []TypeOK
<1>1. Inv => TypeOK  BY DEF Inv
<1>. QED  BY <1>1, Invariance, PTL

(* No thread stays blocked in pop while there is an element. *)
THEOREM NoLostWakeup == Spec => []BlockedOnlyWhenEmpty
<1>1. Inv => BlockedOnlyWhenEmpty  BY DEF Inv
<1>. QED  BY <1>1, Invariance, PTL

(* back() returns the newest element. *)
THEOREM BackCorrect == Spec => []BackIsNewest
<1>1. ASSUME Inv, m_size > 0 PROVE m_back >= 0 /\ BackResult = Contents[m_size]
  <2>1. /\ m_array \in Arrays /\ m_front \in -1..(m_max_size - 1) /\ m_size \in 0..m_max_size
        /\ m_size \in 1..m_size /\ m_back = Slot(m_front, m_size)
    BY <1>1, QueueAssumption DEF Inv, TypeOK, Arrays, Linked
  <2>2. /\ Contents = [i \in 1..m_size |-> m_array[Slot(m_front, i)]]
        /\ Slot(m_front, m_size) \in 0..(m_max_size - 1)
    BY <2>1, ContentsWindow, WindowSlots
  <2>. QED  BY <2>1, <2>2, QueueAssumption DEF BackResult
<1>2. Inv => BackIsNewest  BY <1>1 DEF BackIsNewest
<1>. QED  BY <1>2, Invariance, PTL

(* The ring buffer with its waits and time-outs implements the bounded     *)
(* FIFO queue.                                                             *)
THEOREM Refinement == Spec => RingIsFifo
<1>1. Init => Fifo!Init
  BY DEF Init, Fifo!Init, Contents
<1>. QED  BY <1>1, StepRefines, Invariance, PTL DEF Spec, RingIsFifo, Fifo!Spec
=============================================================================
