----------------------------- MODULE LogProofs -----------------------------
(***************************************************************************)
(* Proofs about Log, for any number of writers and lines, any split and    *)
(* any size of the queue, synchronous and asynchronous.                    *)
(***************************************************************************)
EXTENDS Log, SequenceTheorems, FiniteSetTheorems, TLAPS

-----------------------------------------------------------------------------
(* How often a line occurs in the queue and in the file *)

(* The places of a list that hold an element of T. *)
PlacesOf(s, T) == {i \in DOMAIN s : s[i] \in T}

(* The places of elements are finitely many, and an empty list has none. *)
LEMMA PlacesFinite ==
    ASSUME NEW S, NEW s \in Seq(S), NEW T
    PROVE  /\ IsFiniteSet(PlacesOf(s, T)) /\ Cardinality(PlacesOf(s, T)) \in Nat
           /\ s = <<>> => Cardinality(PlacesOf(s, T)) = 0
<1>1. PlacesOf(s, T) \subseteq 1..Len(s) /\ Len(s) \in Nat
  BY LenProperties DEF PlacesOf
<1>2. IsFiniteSet(PlacesOf(s, T))
  <2>1. IsFiniteSet(1..Len(s))  BY <1>1, FS_Interval
  <2>. QED  BY <1>1, <2>1, FS_Subset
<1>3. s = <<>> => PlacesOf(s, T) = {}
  BY DEF PlacesOf
<1>. QED  BY <1>2, <1>3, FS_CardinalityType, FS_EmptySet

(* push_back adds a place of the new element and no other. *)
LEMMA PlacesAppend ==
    ASSUME NEW S, NEW s \in Seq(S), NEW x \in S, NEW T
    PROVE  Cardinality(PlacesOf(Append(s, x), T)) =
           Cardinality(PlacesOf(s, T)) + (IF x \in T THEN 1 ELSE 0)
<1>1. /\ Len(s) \in Nat /\ Append(s, x) \in Seq(S) /\ Len(Append(s, x)) = Len(s) + 1
      /\ DOMAIN s = 1..Len(s) /\ DOMAIN Append(s, x) = 1..(Len(s) + 1)
      /\ \A i \in 1..Len(s) : Append(s, x)[i] = s[i]
      /\ Append(s, x)[Len(s) + 1] = x
  BY AppendProperties, LenProperties
<1>2. 1..(Len(s) + 1) = (1..Len(s)) \cup {Len(s) + 1} /\ Len(s) + 1 \notin 1..Len(s)
  BY <1>1
<1>3. IsFiniteSet(PlacesOf(s, T)) /\ Cardinality(PlacesOf(s, T)) \in Nat
  BY PlacesFinite
<1>4. Len(s) + 1 \notin PlacesOf(s, T)
  BY <1>1, <1>2 DEF PlacesOf
<1>5. CASE x \in T
  <2>1. PlacesOf(Append(s, x), T) = PlacesOf(s, T) \cup {Len(s) + 1}
    BY <1>1, <1>2, <1>5 DEF PlacesOf
  <2>. QED  BY <1>3, <1>4, <1>5, <2>1, FS_AddElement
<1>6. CASE x \notin T
  <2>1. PlacesOf(Append(s, x), T) = PlacesOf(s, T)
    BY <1>1, <1>2, <1>6 DEF PlacesOf
  <2>. QED  BY <1>3, <1>6, <2>1
<1>. QED  BY <1>5, <1>6

(* pop_front takes the place of the head and no other. *)
LEMMA PlacesTail ==
    ASSUME NEW S, NEW s \in Seq(S), s # <<>>, NEW T
    PROVE  Cardinality(PlacesOf(s, T)) =
           Cardinality(PlacesOf(Tail(s), T)) + (IF Head(s) \in T THEN 1 ELSE 0)
<1>1. /\ Len(s) \in Nat \ {0} /\ Tail(s) \in Seq(S) /\ Len(Tail(s)) = Len(s) - 1
      /\ \A i \in 1..Len(Tail(s)) : Tail(s)[i] = s[i + 1]
      /\ Head(s) = s[1]
      /\ DOMAIN s = 1..Len(s) /\ DOMAIN Tail(s) = 1..(Len(s) - 1)
  BY HeadTailProperties, EmptySeq, LenProperties
<1>. DEFINE R == {i \in 2..Len(s) : s[i] \in T}
            f == [i \in PlacesOf(Tail(s), T) |-> i + 1]
<1>2. f \in [PlacesOf(Tail(s), T) -> R]
  BY <1>1 DEF PlacesOf
<1>3. \A a, b \in PlacesOf(Tail(s), T) : f[a] = f[b] => a = b
  BY <1>1 DEF PlacesOf
<1>4. \A j \in R : \E i \in PlacesOf(Tail(s), T) : f[i] = j
  <2>. SUFFICES ASSUME NEW j \in R PROVE \E i \in PlacesOf(Tail(s), T) : f[i] = j
    OBVIOUS
  <2>1. j - 1 \in PlacesOf(Tail(s), T)
    BY <1>1 DEF PlacesOf
  <2>2. f[j - 1] = j
    BY <2>1
  <2>. QED  BY <2>1, <2>2
<1>5. ExistsBijection(PlacesOf(Tail(s), T), R)
  <2>. HIDE DEF f, R
  <2>1. f \in Bijection(PlacesOf(Tail(s), T), R)
    BY <1>2, <1>3, <1>4 DEF Bijection, Injection, Surjection, IsInjective
  <2>. QED  BY <2>1 DEF ExistsBijection
<1>6. IsFiniteSet(PlacesOf(Tail(s), T)) /\ Cardinality(PlacesOf(Tail(s), T)) \in Nat
  BY <1>1, PlacesFinite
<1>7. IsFiniteSet(R) /\ Cardinality(R) = Cardinality(PlacesOf(Tail(s), T))
  BY <1>5, <1>6, FS_Bijection
<1>8. 1..Len(s) = {1} \cup (2..Len(s)) /\ 1 \notin R
  BY <1>1
<1>9. CASE Head(s) \in T
  <2>1. PlacesOf(s, T) = R \cup {1}
    BY <1>1, <1>8, <1>9 DEF PlacesOf
  <2>. QED  BY <1>6, <1>7, <1>8, <1>9, <2>1, FS_AddElement
<1>10. CASE Head(s) \notin T
  <2>1. PlacesOf(s, T) = R
    BY <1>1, <1>8, <1>10 DEF PlacesOf
  <2>. QED  BY <1>6, <1>7, <1>10, <2>1
<1>. QED  BY <1>9, <1>10

-----------------------------------------------------------------------------
(* The mutex, the file and the text *)

Files == (1..MaxDay) \X Nat
Entries == [file : Files, line : Lines]

Types ==
    /\ m_is_async \in BOOLEAN /\ dead \in BOOLEAN
    /\ pc \in [Threads -> {"idle", "count", "open", "format", "copy", "route", "push", "fputs",
                           "flush", "pop", "put"}]
    /\ pc[Flusher] \in {"pop", "put"} /\ \A w \in Writers : pc[w] \notin {"pop", "put"}
    /\ my_tm \in [Writers -> 1..MaxDay] /\ called \in [Writers -> 0..LinesPerWriter]
    /\ log_str \in [Threads -> Lines \cup {NoLine}] /\ m_buf \in Lines \cup {NoLine}
    /\ m_log_queue \in Seq(Lines) /\ out \in Seq(Entries) /\ lost \subseteq Lines

(* The mutex is held exactly in the two critical sections that are cut in  *)
(* two; m_fp is closed only inside the first, m_buf is the line of the     *)
(* thread inside the second.                                               *)
Control ==
    /\ m_mutex \in Writers \cup {Unlocked}
    /\ \A w \in Writers : m_mutex = w <=> pc[w] \in {"open", "copy"}
    /\ m_fp = Closed => \E w \in Writers : pc[w] = "open"
    /\ \A w \in Writers : pc[w] # "idle" => called[w] \in 1..LinesPerWriter
    /\ \A w \in Writers : pc[w] = "copy" => m_buf = Line(w)
    /\ pc[Flusher] = "put" => log_str[Flusher] \in Lines

Inv1 == TypeOK /\ Types /\ Control /\ OwnText /\ NoUseAfterClose

(* init establishes the invariant, with and without its fopen. *)
LEMMA Inv1Init == Init => Inv1
<1>. SUFFICES ASSUME Init PROVE Inv1
  OBVIOUS
<1>. USE LogAssumption DEF Init, Threads
<1>1. Types
  <2>1. <<>> \in Seq(Lines) /\ <<>> \in Seq(Entries)
    BY EmptySeq
  <2>2. pc \in [Threads -> {"idle", "pop"}] /\ pc[Flusher] = "pop" /\ \A w \in Writers : pc[w] = "idle"
    OBVIOUS
  <2>3. my_tm \in [Writers -> 1..MaxDay] /\ called \in [Writers -> 0..LinesPerWriter]
    OBVIOUS
  <2>4. log_str \in [Threads -> Lines \cup {NoLine}] /\ m_buf \in Lines \cup {NoLine}
    OBVIOUS
  <2>. QED  BY <2>1, <2>2, <2>3, <2>4 DEF Types
<1>2. TypeOK
  BY DEF TypeOK, Closed, Null
<1>3. Control
  <2>1. <<1, 0>> \in Files
    BY DEF Files
  <2>2. <<1, 0>> # Closed /\ Null # Closed
    BY <2>1 DEF Files, Closed, Null
  <2>. QED  BY <2>2 DEF Control
<1>4. OwnText /\ NoUseAfterClose
  BY DEF OwnText, NoUseAfterClose
<1>. QED  BY <1>1, <1>2, <1>3, <1>4 DEF Inv1

(* fputs on the open file appends a line; on a null FILE the process dies. *)
LEMMA FputsStep ==
    ASSUME Inv1, m_mutex = Unlocked, NEW line \in Lines, Fputs(line)
    PROVE  /\ m_fp # Closed /\ out' \in Seq(Entries)
           /\ Len(out) \in Nat /\ Len(out') \in Nat /\ Len(out) <= Len(out')
           /\ dead' \in BOOLEAN /\ (dead' => dead \/ m_fp = Null)
           /\ ~dead' => m_fp \in Files /\ out' = Append(out, [file |-> m_fp, line |-> line])
<1>1. m_fp # Closed
  BY LogAssumption DEF Inv1, Control
<1>2. CASE m_fp = Null
  BY <1>1, <1>2, LenProperties DEF Fputs, Inv1, Types
<1>3. CASE m_fp # Null
  <2>1. m_fp \in Files /\ [file |-> m_fp, line |-> line] \in Entries
    BY <1>1, <1>3 DEF Inv1, TypeOK, Files, Entries
  <2>2. out' = Append(out, [file |-> m_fp, line |-> line]) /\ dead' = dead
    BY <1>1, <1>3 DEF Fputs
  <2>. QED  BY <1>1, <1>3, <2>1, <2>2, AppendProperties, LenProperties DEF Inv1, Types
<1>. QED  BY <1>2, <1>3

(* The two writers of the file. *)
LEMMA Inv1Write ==
    ASSUME Inv1, NEW t \in Threads, m_mutex = Unlocked,
           \/ t \in Writers /\ Goto(t, "fputs", "flush")
           \/ t = Flusher /\ Goto(t, "put", "pop"),
           Fputs(log_str[t]),
           UNCHANGED <<m_count, m_today, m_fp, flushed, m_is_async, m_mutex, m_buf, m_log_queue,
                       day, my_tm, log_str, called, lost>>
    PROVE  Inv1' /\ log_str[t] \in Lines
<1>. USE DEF Goto
<1>1. log_str[t] \in Lines
  <2>1. ASSUME t \in Writers, pc[t] = "fputs" PROVE log_str[t] \in Lines
    <3>1. log_str[t] = Line(t)  BY <2>1 DEF Inv1, OwnText
    <3>2. Line(t) \in Lines  BY <2>1 DEF Inv1, Control, Line, Lines
    <3>. QED  BY <3>1, <3>2
  <2>2. ASSUME t = Flusher, pc[t] = "put" PROVE log_str[t] \in Lines
    BY <2>2 DEF Inv1, Control
  <2>. QED  BY <2>1, <2>2
<1>2. /\ m_fp # Closed /\ out' \in Seq(Entries)
      /\ Len(out) \in Nat /\ Len(out') \in Nat /\ Len(out) <= Len(out')
      /\ dead' \in BOOLEAN /\ (dead' => dead \/ m_fp = Null)
  BY <1>1, FputsStep
<1>3. TypeOK'
  BY <1>2 DEF Inv1, TypeOK
<1>4. Types'
  <2>1. UNCHANGED <<my_tm, called, log_str, m_buf, m_log_queue, lost, m_is_async>>
    OBVIOUS
  <2>2. /\ pc' \in [Threads -> {"idle", "count", "open", "format", "copy", "route", "push", "fputs",
                                "flush", "pop", "put"}]
        /\ pc'[Flusher] \in {"pop", "put"} /\ \A w \in Writers : pc'[w] \notin {"pop", "put"}
    BY LogAssumption DEF Inv1, Types, Threads
  <2>. QED  BY <1>2, <2>1, <2>2 DEF Inv1, Types
<1>5. Control'
  BY <1>2, LogAssumption DEF Inv1, Types, Control, Threads, Line
<1>6. OwnText'
  BY LogAssumption DEF Inv1, Types, OwnText, Line, Threads
<1>7. NoUseAfterClose'
  BY <1>2 DEF Inv1, NoUseAfterClose
<1>. QED  BY <1>1, <1>3, <1>4, <1>5, <1>6, <1>7 DEF Inv1

(* A step of write_log that keeps the file and the queue as they are. *)
LEMMA Inv1Quiet ==
    ASSUME Inv1, NEW w \in Writers,
           ReadClock(w) \/ CountLine(w) \/ Format(w) \/ Copy(w) \/ Route(w) \/ Flush(w)
    PROVE  Inv1'
<1>. USE LogAssumption DEF Goto, Threads, fileVars
<1>1. CASE ReadClock(w)
  <2>1. called' \in [Writers -> 0..LinesPerWriter] /\ called'[w] \in 1..LinesPerWriter
    BY <1>1 DEF ReadClock, Inv1, Types
  <2>2. TypeOK' /\ Types'
    BY <1>1, <2>1 DEF ReadClock, Inv1, TypeOK, Types
  <2>3. Control'
    BY <1>1, <2>1 DEF ReadClock, Inv1, Types, Control, Line
  <2>. QED  BY <1>1, <2>2, <2>3 DEF ReadClock, Inv1, Types, OwnText, NoUseAfterClose, Line
<1>2. CASE CountLine(w)
  BY <1>2 DEF CountLine, Inv1, TypeOK, Types, Control, OwnText, NoUseAfterClose, Line
<1>3. CASE Format(w)
  <2>1. Line(w) \in Lines
    BY <1>3 DEF Format, Inv1, Control, Line, Lines
  <2>2. TypeOK' /\ Types'
    BY <1>3, <2>1 DEF Format, Lock, Inv1, TypeOK, Types
  <2>3. Control'
    BY <1>3 DEF Format, Lock, Inv1, Types, Control, Line
  <2>. QED  BY <1>3, <2>2, <2>3 DEF Format, Inv1, Types, OwnText, NoUseAfterClose, Line
<1>4. CASE Copy(w)
  <2>1. TypeOK' /\ Types'
    BY <1>4 DEF Copy, Unlock, Inv1, TypeOK, Types
  <2>2. Control'
    BY <1>4 DEF Copy, Unlock, Inv1, Types, Control, Line
  <2>3. OwnText'
    BY <1>4 DEF Copy, Inv1, Types, Control, OwnText, Line
  <2>. QED  BY <1>4, <2>1, <2>2, <2>3 DEF Copy, Inv1, NoUseAfterClose
<1>5. CASE Route(w)
  BY <1>5 DEF Route, Inv1, TypeOK, Types, Control, OwnText, NoUseAfterClose, Line
<1>6. CASE Flush(w)
  <2>1. Len(out) \in Nat
    BY LenProperties DEF Inv1, Types
  <2>2. m_fp # Closed
    BY <1>6 DEF Flush, Inv1, Control
  <2>. QED  BY <1>6, <2>1, <2>2 DEF Flush, Inv1, TypeOK, Types, Control, OwnText, NoUseAfterClose, Line
<1>. QED  BY <1>1, <1>2, <1>3, <1>4, <1>5, <1>6

(* The two halves of a rotation. *)
LEMMA Inv1Rotate ==
    ASSUME Inv1, NEW w \in Writers, CloseFile(w) \/ OpenFile(w)
    PROVE  Inv1'
<1>. USE LogAssumption DEF Goto, Threads, fileVars
<1>1. CASE CloseFile(w)
  <2>1. Len(out) \in Nat
    BY LenProperties DEF Inv1, Types
  <2>2. TypeOK'
    BY <1>1, <2>1 DEF CloseFile, Lock, Inv1, TypeOK
  <2>3. Types'
    BY <1>1 DEF CloseFile, Inv1, Types
  <2>4. Control'
    BY <1>1 DEF CloseFile, Lock, Inv1, Types, Control, Line, Closed, Null
  <2>5. m_fp # Closed
    BY <1>1 DEF CloseFile, Lock, Inv1, Control
  <2>6. NoUseAfterClose'
    BY <1>1, <2>5 DEF CloseFile, Inv1, NoUseAfterClose
  <2>7. OwnText'
    BY <1>1 DEF CloseFile, Inv1, Types, OwnText, Line
  <2>. QED  BY <2>2, <2>3, <2>4, <2>6, <2>7 DEF Inv1
<1>2. CASE OpenFile(w)
  <2>1. m_count \div m_split_lines \in Nat
    BY DEF Inv1, TypeOK
  <2>2. m_fp' \in Files \cup {Null} /\ m_count' \in Nat /\ m_today' \in 1..MaxDay
    BY <1>2, <2>1 DEF OpenFile, Inv1, TypeOK, Types, Files
  <2>3. m_fp' # Closed
    BY <2>2 DEF Files, Closed, Null
  <2>4. TypeOK'
    BY <1>2, <2>2 DEF OpenFile, Unlock, Inv1, TypeOK, Files
  <2>5. Types'
    BY <1>2 DEF OpenFile, Inv1, Types
  <2>6. Control'
    BY <1>2, <2>3 DEF OpenFile, Unlock, Inv1, Types, Control, Line
  <2>7. ~dead' /\ OwnText'
    BY <1>2 DEF OpenFile, Inv1, Types, OwnText, Line
  <2>. QED  BY <2>4, <2>5, <2>6, <2>7 DEF Inv1, NoUseAfterClose
<1>. QED  BY <1>1, <1>2

(* The two ends of the queue. *)
LEMMA Inv1Queue ==
    ASSUME Inv1, PopLine \/ \E w \in Writers : Push(w)
    PROVE  Inv1'
<1>. USE LogAssumption DEF Goto, Threads, fileVars
<1>1. ASSUME NEW w \in Writers, Push(w) PROVE Inv1'
  <2>1. log_str[w] \in Lines
    <3>1. log_str[w] = Line(w)  BY <1>1 DEF Push, Inv1, OwnText
    <3>2. Line(w) \in Lines  BY <1>1 DEF Push, Inv1, Control, Line, Lines
    <3>. QED  BY <3>1, <3>2
  <2>2. Len(m_log_queue) \in Nat
    BY LenProperties DEF Inv1, Types
  <2>3. /\ m_log_queue' \in Seq(Lines) /\ lost' \subseteq Lines
        /\ Len(m_log_queue') <= max_queue_size
    <3>1. /\ Append(m_log_queue, log_str[w]) \in Seq(Lines)
          /\ Len(Append(m_log_queue, log_str[w])) = Len(m_log_queue) + 1
      BY <2>1, AppendProperties DEF Inv1, Types
    <3>2. CASE Len(m_log_queue) < max_queue_size
      <4>1. m_log_queue' = Append(m_log_queue, log_str[w]) /\ lost' = lost
        BY <1>1, <3>2 DEF Push
      <4>2. Len(m_log_queue) + 1 <= max_queue_size
        BY <2>2, <3>2
      <4>. QED  BY <3>1, <4>1, <4>2 DEF Inv1, Types
    <3>3. CASE ~(Len(m_log_queue) < max_queue_size)
      BY <1>1, <2>1, <3>3 DEF Push, Inv1, TypeOK, Types
    <3>. QED  BY <3>2, <3>3
  <2>4. TypeOK' /\ Types'
    BY <1>1, <2>3 DEF Push, Inv1, TypeOK, Types
  <2>. QED  BY <1>1, <2>4 DEF Push, Inv1, Types, Control, OwnText, NoUseAfterClose, Line
<1>2. CASE PopLine
  <2>1. /\ Head(m_log_queue) \in Lines /\ Tail(m_log_queue) \in Seq(Lines)
        /\ Len(Tail(m_log_queue)) <= max_queue_size
    BY <1>2, HeadTailProperties, LenProperties, EmptySeq DEF PopLine, Inv1, TypeOK, Types
  <2>2. TypeOK' /\ Types'
    BY <1>2, <2>1 DEF PopLine, Inv1, TypeOK, Types
  <2>. QED  BY <1>2, <2>1, <2>2 DEF PopLine, Inv1, Types, Control, OwnText, NoUseAfterClose, Line
<1>. QED  BY <1>1, <1>2

(* Every step preserves Inv1. *)
LEMMA Inv1Step == Inv1 /\ [Next]_vars => Inv1'
<1>. SUFFICES ASSUME Inv1, [Next]_vars PROVE Inv1'
  OBVIOUS
<1>1. CASE UNCHANGED vars
  BY <1>1 DEF vars, fileVars, Inv1, TypeOK, Types, Control, OwnText, NoUseAfterClose, Line
<1>2. CASE Midnight
  BY <1>2, LogAssumption
     DEF Midnight, fileVars, Inv1, TypeOK, Types, Control, OwnText, NoUseAfterClose, Line
<1>3. CASE PutLine
  BY <1>3, Inv1Write DEF PutLine, Threads
<1>4. ASSUME NEW w \in Writers, WriteDirect(w) PROVE Inv1'
  BY <1>4, Inv1Write DEF WriteDirect, Threads
<1>. QED  BY <1>1, <1>2, <1>3, <1>4, Inv1Quiet, Inv1Rotate, Inv1Queue
          DEF Next, FlusherStep, WriteStep

-----------------------------------------------------------------------------
(* Where a line is *)

(* The call has handed its line on: to the file, to the queue, or push     *)
(* refused it.                                                             *)
HandedOn(w, i) == i < called[w] \/ (i = called[w] /\ pc[w] \in {"idle", "flush"})

(* A line has no place before it is handed on and one place afterwards. *)
Inv2 ==
    ~dead => \A w \in Writers, i \in 1..LinesPerWriter :
        Places(<<w, i>>) = IF HandedOn(w, i) THEN 1 ELSE 0

(* The four summands of Places. *)
InFile(l) == Cardinality({i \in DOMAIN out : out[i].line = l})
InQueue(l) == Cardinality({i \in DOMAIN m_log_queue : m_log_queue[i] = l})
InHand(l) == IF pc[Flusher] = "put" /\ log_str[Flusher] = l THEN 1 ELSE 0
IsLost(l) == IF l \in lost THEN 1 ELSE 0

(* Entries of the file with a given line. *)
LineIs(l) == {e \in Entries : e.line = l}

(* The first summand counts the places of entries in the file. *)
LEMMA FilePlaces ==
    ASSUME NEW o \in Seq(Entries), NEW l
    PROVE  {i \in DOMAIN o : o[i].line = l} = PlacesOf(o, LineIs(l))
<1>1. \A i \in DOMAIN o : o[i] \in Entries
  BY LenProperties, ElementOfSeq
<1>. QED  BY <1>1 DEF PlacesOf, LineIs

(* The second counts the places of the line in the queue. *)
LEMMA QueuePlaces ==
    ASSUME NEW q, NEW l
    PROVE  {i \in DOMAIN q : q[i] = l} = PlacesOf(q, {l})
  BY DEF PlacesOf

(* Each summand is a number. *)
LEMMA Counts ==
    ASSUME Inv1, NEW l
    PROVE  /\ InFile(l) \in Nat /\ InQueue(l) \in Nat /\ InHand(l) \in {0, 1} /\ IsLost(l) \in {0, 1}
           /\ Places(l) = InFile(l) + InQueue(l) + InHand(l) + IsLost(l)
<1>1. InFile(l) \in Nat
  <2>1. out \in Seq(Entries)  BY DEF Inv1, Types
  <2>2. InFile(l) = Cardinality(PlacesOf(out, LineIs(l)))  BY <2>1, FilePlaces DEF InFile
  <2>. QED  BY <2>1, <2>2, PlacesFinite
<1>2. InQueue(l) \in Nat
  <2>1. m_log_queue \in Seq(Lines)  BY DEF Inv1, Types
  <2>2. InQueue(l) = Cardinality(PlacesOf(m_log_queue, {l}))  BY QueuePlaces DEF InQueue
  <2>. QED  BY <2>1, <2>2, PlacesFinite
<1>3. InHand(l) \in {0, 1} /\ IsLost(l) \in {0, 1}
  BY DEF InHand, IsLost
<1>4. Places(l) = InFile(l) + InQueue(l) + InHand(l) + IsLost(l)
  BY DEF Places, InFile, InQueue, InHand, IsLost
<1>. QED  BY <1>1, <1>2, <1>3, <1>4

(* fputs adds one to the line it writes. *)
LEMMA FileGrows ==
    ASSUME Inv1, NEW e \in Entries, out' = Append(out, e), NEW l
    PROVE  InFile(l)' = InFile(l) + (IF e.line = l THEN 1 ELSE 0)
<1>1. out \in Seq(Entries) /\ Append(out, e) \in Seq(Entries)
  BY AppendProperties DEF Inv1, Types
<1>2. InFile(l) = Cardinality(PlacesOf(out, LineIs(l)))
  BY <1>1, FilePlaces DEF InFile
<1>3. InFile(l)' = Cardinality(PlacesOf(Append(out, e), LineIs(l)))
  BY <1>1, FilePlaces DEF InFile
<1>4. e \in LineIs(l) <=> e.line = l
  BY DEF LineIs
<1>. QED  BY <1>1, <1>2, <1>3, <1>4, PlacesAppend

(* push adds one to the line it queues. *)
LEMMA QueueGrows ==
    ASSUME Inv1, NEW x \in Lines, m_log_queue' = Append(m_log_queue, x), NEW l
    PROVE  InQueue(l)' = InQueue(l) + (IF x = l THEN 1 ELSE 0)
<1>1. InQueue(l) = Cardinality(PlacesOf(m_log_queue, {l}))
  BY QueuePlaces DEF InQueue
<1>2. InQueue(l)' = Cardinality(PlacesOf(Append(m_log_queue, x), {l}))
  BY QueuePlaces DEF InQueue
<1>3. m_log_queue \in Seq(Lines) /\ (x \in {l} <=> x = l)
  BY DEF Inv1, Types
<1>. QED  BY <1>1, <1>2, <1>3, PlacesAppend

(* pop takes one from the line it returns. *)
LEMMA QueueShrinks ==
    ASSUME Inv1, m_log_queue # <<>>, m_log_queue' = Tail(m_log_queue), NEW l
    PROVE  /\ InQueue(l)' \in Nat
           /\ InQueue(l) = InQueue(l)' + (IF Head(m_log_queue) = l THEN 1 ELSE 0)
<1>1. InQueue(l) = Cardinality(PlacesOf(m_log_queue, {l}))
  BY QueuePlaces DEF InQueue
<1>2. InQueue(l)' = Cardinality(PlacesOf(Tail(m_log_queue), {l}))
  BY QueuePlaces DEF InQueue
<1>3. m_log_queue \in Seq(Lines) /\ (Head(m_log_queue) \in {l} <=> Head(m_log_queue) = l)
  BY DEF Inv1, Types
<1>4. Tail(m_log_queue) \in Seq(Lines)
  BY <1>3, HeadTailProperties
<1>5. Cardinality(PlacesOf(Tail(m_log_queue), {l})) \in Nat
  BY <1>4, PlacesFinite
<1>. QED  BY <1>1, <1>2, <1>3, <1>5, PlacesTail

(* init has written nothing and queued nothing. *)
LEMMA Inv2Init == Init => Inv2
<1>. SUFFICES ASSUME Init, NEW w \in Writers, NEW i \in 1..LinesPerWriter
              PROVE  Places(<<w, i>>) = 0 /\ ~HandedOn(w, i)
  BY DEF Inv2
<1>1. InFile(<<w, i>>) = 0 /\ InQueue(<<w, i>>) = 0
  <2>1. {j \in DOMAIN out : out[j].line = <<w, i>>} = {}
    BY DEF Init
  <2>2. {j \in DOMAIN m_log_queue : m_log_queue[j] = <<w, i>>} = {}
    BY DEF Init
  <2>. QED  BY <2>1, <2>2, FS_EmptySet DEF InFile, InQueue
<1>2. pc[Flusher] = "pop" /\ pc[w] = "idle" /\ called[w] = 0 /\ lost = {}
  BY LogAssumption DEF Init, Threads
<1>3. Places(<<w, i>>) = 0
  BY <1>1, <1>2 DEF Places, InFile, InQueue
<1>. QED  BY <1>2, <1>3 DEF HandedOn

(* A step that moves no line and hands none on. *)
LEMMA Inv2Quiet ==
    ASSUME Inv1, Inv2, dead => dead', UNCHANGED <<out, m_log_queue, lost>>,
           pc'[Flusher] = pc[Flusher], log_str'[Flusher] = log_str[Flusher],
           \A w \in Writers, i \in 1..LinesPerWriter : HandedOn(w, i)' <=> HandedOn(w, i)
    PROVE  Inv2'
<1>1. \A l : Places(l)' = Places(l)
  BY DEF Places
<1>. QED  BY <1>1 DEF Inv2

(* The steps of write_log that move no line between its places. *)
LEMMA Inv2QuietSteps ==
    ASSUME Inv1, Inv2, NEW w \in Writers,
           \/ ReadClock(w) \/ CountLine(w) \/ CloseFile(w) \/ OpenFile(w)
           \/ Format(w) \/ Copy(w) \/ Route(w) \/ Flush(w)
    PROVE  Inv2'
<1>. USE LogAssumption DEF Goto, Threads, fileVars
<1>1. (dead => dead') /\ UNCHANGED <<out, m_log_queue, lost>>
  BY DEF ReadClock, CountLine, CloseFile, OpenFile, Format, Copy, Route, Flush
<1>2. pc'[Flusher] = pc[Flusher] /\ log_str'[Flusher] = log_str[Flusher]
  BY DEF ReadClock, CountLine, CloseFile, OpenFile, Format, Copy, Route, Flush, Inv1, Types
<1>3. ASSUME NEW v \in Writers, NEW i \in 1..LinesPerWriter
      PROVE  HandedOn(v, i)' <=> HandedOn(v, i)
  <2>1. CASE ReadClock(w)
    BY <2>1 DEF ReadClock, HandedOn, Inv1, Types
  <2>2. CASE ~ReadClock(w)
    BY <2>2 DEF CountLine, CloseFile, OpenFile, Format, Copy, Route, Flush, HandedOn, Inv1, Types
  <2>. QED  BY <2>1, <2>2
<1>. QED  BY <1>1, <1>2, <1>3, Inv2Quiet

(* The sum, after a step. *)
LEMMA CountsNext ==
    ASSUME NEW l
    PROVE  Places(l)' = InFile(l)' + InQueue(l)' + InHand(l)' + IsLost(l)'
  BY DEF Places, InFile, InQueue, InHand, IsLost

(* push hands the writer's line on: to the queue, or to nobody. *)
LEMMA Inv2Push ==
    ASSUME Inv1, Inv2, NEW w \in Writers, Push(w)
    PROVE  Inv2'
<1>. SUFFICES ASSUME ~dead', NEW v \in Writers, NEW i \in 1..LinesPerWriter
              PROVE  Places(<<v, i>>)' = IF HandedOn(v, i)' THEN 1 ELSE 0
  BY DEF Inv2
<1>. DEFINE l == <<v, i>>
<1>1. /\ ~dead /\ pc[w] = "push" /\ pc' = [pc EXCEPT ![w] = "flush"] /\ out' = out
      /\ log_str' = log_str /\ called' = called /\ log_str[w] = Line(w) /\ Line(w) \in Lines
  BY DEF Push, Goto, fileVars, Inv1, OwnText, Control, Line, Lines
<1>2. Places(l) = IF HandedOn(v, i) THEN 1 ELSE 0
  BY <1>1 DEF Inv2
<1>3. InFile(l)' = InFile(l) /\ InHand(l)' = InHand(l)
  BY <1>1, LogAssumption DEF InFile, InHand, Inv1, Types, Threads
<1>4. HandedOn(v, i)' <=> HandedOn(v, i) \/ l = Line(w)
  BY <1>1 DEF HandedOn, Line, Inv1, Types, Threads
<1>5. l = Line(w) => ~HandedOn(v, i)
  BY <1>1 DEF HandedOn, Line, Inv1, Types
<1>6. /\ InFile(l) \in Nat /\ InQueue(l) \in Nat /\ InHand(l) \in {0, 1} /\ IsLost(l) \in {0, 1}
      /\ Places(l) = InFile(l) + InQueue(l) + InHand(l) + IsLost(l)
  BY Counts
<1>7. Places(l)' = InFile(l)' + InQueue(l)' + InHand(l)' + IsLost(l)'
  BY CountsNext
<1>. HIDE DEF l
<1>8. CASE Len(m_log_queue) < max_queue_size
  <2>1. InQueue(l)' = InQueue(l) + (IF Line(w) = l THEN 1 ELSE 0)
    BY <1>1, <1>8, QueueGrows DEF Push
  <2>2. IsLost(l)' = IsLost(l)
    BY <1>8 DEF Push, IsLost
  <2>. QED  BY <1>2, <1>3, <1>4, <1>5, <1>6, <1>7, <2>1, <2>2 DEF l
<1>9. CASE ~(Len(m_log_queue) < max_queue_size)
  <2>1. InQueue(l)' = InQueue(l) /\ lost' = lost \cup {Line(w)}
    BY <1>1, <1>9 DEF Push, InQueue
  <2>2. l # Line(w) => IsLost(l)' = IsLost(l)
    BY <2>1 DEF IsLost
  <2>3. l = Line(w) => IsLost(l)' = 1
    BY <2>1 DEF IsLost
  <2>. QED  BY <1>2, <1>3, <1>4, <1>5, <1>6, <1>7, <2>1, <2>2, <2>3 DEF l
<1>. QED  BY <1>8, <1>9

(* fputs in write_log hands the writer's line on to the file. *)
LEMMA Inv2WriteDirect ==
    ASSUME Inv1, Inv2, NEW w \in Writers, WriteDirect(w)
    PROVE  Inv2'
<1>. SUFFICES ASSUME ~dead', NEW v \in Writers, NEW i \in 1..LinesPerWriter
              PROVE  Places(<<v, i>>)' = IF HandedOn(v, i)' THEN 1 ELSE 0
  BY DEF Inv2
<1>. DEFINE l == <<v, i>>
<1>1. /\ ~dead /\ pc[w] = "fputs" /\ pc' = [pc EXCEPT ![w] = "flush"]
      /\ UNCHANGED <<log_str, called, m_log_queue, lost>>
      /\ log_str[w] = Line(w) /\ Line(w) \in Lines
  BY DEF WriteDirect, Goto, Inv1, OwnText, Control, Line, Lines
<1>2. Places(l) = IF HandedOn(v, i) THEN 1 ELSE 0
  BY <1>1 DEF Inv2
<1>3. InQueue(l)' = InQueue(l) /\ InHand(l)' = InHand(l) /\ IsLost(l)' = IsLost(l)
  BY <1>1, LogAssumption DEF InQueue, InHand, IsLost, Inv1, Types, Threads
<1>4. HandedOn(v, i)' <=> HandedOn(v, i) \/ l = Line(w)
  BY <1>1 DEF HandedOn, Line, Inv1, Types, Threads
<1>5. l = Line(w) => ~HandedOn(v, i)
  BY <1>1 DEF HandedOn, Line, Inv1, Types
<1>6. /\ InFile(l) \in Nat /\ InQueue(l) \in Nat /\ InHand(l) \in {0, 1} /\ IsLost(l) \in {0, 1}
      /\ Places(l) = InFile(l) + InQueue(l) + InHand(l) + IsLost(l)
  BY Counts
<1>7. Places(l)' = InFile(l)' + InQueue(l)' + InHand(l)' + IsLost(l)'
  BY CountsNext
<1>. HIDE DEF l
<1>8. InFile(l)' = InFile(l) + (IF Line(w) = l THEN 1 ELSE 0)
  <2>1. m_fp \in Files /\ out' = Append(out, [file |-> m_fp, line |-> Line(w)])
    BY <1>1, FputsStep DEF WriteDirect
  <2>2. [file |-> m_fp, line |-> Line(w)] \in Entries
    BY <1>1, <2>1 DEF Entries
  <2>. QED  BY <2>1, <2>2, FileGrows
<1>. QED  BY <1>2, <1>3, <1>4, <1>5, <1>6, <1>7, <1>8 DEF l

(* The flusher moves a line from the queue to its hand ... *)
LEMMA Inv2Pop ==
    ASSUME Inv1, Inv2, PopLine
    PROVE  Inv2'
<1>. SUFFICES ASSUME ~dead', NEW v \in Writers, NEW i \in 1..LinesPerWriter
              PROVE  Places(<<v, i>>)' = IF HandedOn(v, i)' THEN 1 ELSE 0
  BY DEF Inv2
<1>. DEFINE l == <<v, i>>
<1>1. /\ ~dead /\ pc[Flusher] = "pop" /\ pc' = [pc EXCEPT ![Flusher] = "put"]
      /\ UNCHANGED <<out, called, lost>> /\ m_log_queue # <<>> /\ m_log_queue' = Tail(m_log_queue)
      /\ log_str' = [log_str EXCEPT ![Flusher] = Head(m_log_queue)]
  BY DEF PopLine, Goto, fileVars
<1>2. Places(l) = IF HandedOn(v, i) THEN 1 ELSE 0
  BY <1>1 DEF Inv2
<1>3. InFile(l)' = InFile(l) /\ IsLost(l)' = IsLost(l)
  BY <1>1 DEF InFile, IsLost
<1>4. InHand(l) = 0 /\ InHand(l)' = IF Head(m_log_queue) = l THEN 1 ELSE 0
  BY <1>1 DEF InHand, Inv1, Types, Threads
<1>5. HandedOn(v, i)' <=> HandedOn(v, i)
  BY <1>1, LogAssumption DEF HandedOn, Inv1, Types, Threads
<1>6. /\ InFile(l) \in Nat /\ InQueue(l) \in Nat /\ IsLost(l) \in {0, 1}
      /\ Places(l) = InFile(l) + InQueue(l) + InHand(l) + IsLost(l)
  BY Counts
<1>7. Places(l)' = InFile(l)' + InQueue(l)' + InHand(l)' + IsLost(l)'
  BY CountsNext
<1>8. InQueue(l)' \in Nat /\ InQueue(l) = InQueue(l)' + (IF Head(m_log_queue) = l THEN 1 ELSE 0)
  BY <1>1, QueueShrinks
<1>. HIDE DEF l
<1>9. Places(l)' = Places(l)
  BY <1>3, <1>4, <1>6, <1>7, <1>8
<1>. QED  BY <1>2, <1>5, <1>9 DEF l

(* ... and from its hand to the file. *)
LEMMA Inv2Put ==
    ASSUME Inv1, Inv2, PutLine
    PROVE  Inv2'
<1>. SUFFICES ASSUME ~dead', NEW v \in Writers, NEW i \in 1..LinesPerWriter
              PROVE  Places(<<v, i>>)' = IF HandedOn(v, i)' THEN 1 ELSE 0
  BY DEF Inv2
<1>. DEFINE l == <<v, i>>
            x == log_str[Flusher]
<1>1. /\ ~dead /\ pc[Flusher] = "put" /\ pc' = [pc EXCEPT ![Flusher] = "pop"]
      /\ UNCHANGED <<log_str, called, m_log_queue, lost>> /\ x \in Lines
  BY DEF PutLine, Goto, Inv1, Control
<1>2. Places(l) = IF HandedOn(v, i) THEN 1 ELSE 0
  BY <1>1 DEF Inv2
<1>3. InQueue(l)' = InQueue(l) /\ IsLost(l)' = IsLost(l)
  BY <1>1 DEF InQueue, IsLost
<1>4. InHand(l)' = 0 /\ InHand(l) = IF x = l THEN 1 ELSE 0
  BY <1>1 DEF InHand, Inv1, Types, Threads
<1>5. HandedOn(v, i)' <=> HandedOn(v, i)
  BY <1>1, LogAssumption DEF HandedOn, Inv1, Types, Threads
<1>6. /\ InFile(l) \in Nat /\ InQueue(l) \in Nat /\ IsLost(l) \in {0, 1}
      /\ Places(l) = InFile(l) + InQueue(l) + InHand(l) + IsLost(l)
  BY Counts
<1>7. Places(l)' = InFile(l)' + InQueue(l)' + InHand(l)' + IsLost(l)'
  BY CountsNext
<1>8. InFile(l)' = InFile(l) + (IF x = l THEN 1 ELSE 0)
  <2>1. m_fp \in Files /\ out' = Append(out, [file |-> m_fp, line |-> x])
    BY <1>1, FputsStep DEF PutLine
  <2>2. [file |-> m_fp, line |-> x] \in Entries
    BY <1>1, <2>1 DEF Entries
  <2>. QED  BY <2>1, <2>2, FileGrows
<1>. HIDE DEF l, x
<1>. QED  BY <1>2, <1>3, <1>4, <1>5, <1>6, <1>7, <1>8 DEF l

(* Every step preserves Inv2. *)
LEMMA Inv2Step == Inv1 /\ Inv2 /\ [Next]_vars => Inv2'
<1>. SUFFICES ASSUME Inv1, Inv2, [Next]_vars PROVE Inv2'
  OBVIOUS
<1>1. CASE UNCHANGED vars \/ Midnight
  <2>1. UNCHANGED <<dead, out, m_log_queue, lost, pc, log_str, called>>
    BY <1>1 DEF vars, Midnight, fileVars
  <2>2. \A w \in Writers, i \in 1..LinesPerWriter : HandedOn(w, i)' <=> HandedOn(w, i)
    BY <2>1 DEF HandedOn
  <2>3. dead => dead'
    BY <2>1
  <2>. QED  BY <2>1, <2>2, <2>3, Inv2Quiet
<1>2. ASSUME NEW w \in Writers, ReadClock(w) \/ WriteStep(w) PROVE Inv2'
  BY <1>2, Inv2QuietSteps, Inv2Push, Inv2WriteDirect DEF WriteStep
<1>. QED  BY <1>1, <1>2, Inv2Pop, Inv2Put DEF Next, FlusherStep

-----------------------------------------------------------------------------
(* What has left the stdio buffer *)

(* Without the queue a line is in the file before its call flushes, and    *)
(* what was flushed stays flushed.                                         *)
Inv3 ==
    ~m_is_async /\ ~dead => \A w \in Writers :
        /\ pc[w] # "push"
        /\ pc[w] = "flush" => Line(w) \in Written(Len(out))
        /\ \A i \in 1..called[w] :
               i < called[w] \/ pc[w] = "idle" => <<w, i>> \in Written(flushed)

(* init has no call to answer for. *)
LEMMA Inv3Init == Init => Inv3
  BY LogAssumption DEF Init, Inv3, Threads

(* The file only grows, and what was flushed stays flushed. *)
LEMMA WrittenGrows ==
    ASSUME Inv1, flushed' \in Nat, flushed <= flushed', out' = out \/ \E e \in Entries : out' = Append(out, e)
    PROVE  /\ Written(flushed) \subseteq Written(flushed)'
           /\ Written(Len(out)) \subseteq Written(Len(out))'
<1>1. Len(out) \in Nat /\ flushed \in 0..Len(out)
  BY LenProperties DEF Inv1, Types, TypeOK
<1>2. Len(out') \in Nat /\ Len(out) <= Len(out') /\ \A i \in 1..Len(out) : out'[i] = out[i]
  BY <1>1, AppendProperties, LenProperties DEF Inv1, Types
<1>3. ASSUME NEW k \in Nat, NEW l \in Nat, k <= l, k <= Len(out)
      PROVE  {out[i].line : i \in 1..k} \subseteq {out'[i].line : i \in 1..l}
  <2>. SUFFICES ASSUME NEW i \in 1..k PROVE \E j \in 1..l : out[i].line = out'[j].line
    OBVIOUS
  <2>1. i \in 1..l /\ i \in 1..Len(out)
    BY <1>1, <1>3
  <2>2. out'[i] = out[i]
    BY <1>2, <2>1
  <2>. QED  BY <2>1, <2>2
<1>4. Written(flushed) \subseteq Written(flushed)'
  <2>1. flushed \in Nat /\ flushed <= Len(out)
    BY <1>1
  <2>2. {out[i].line : i \in 1..flushed} \subseteq {out'[i].line : i \in 1..flushed'}
    BY <1>3, <2>1
  <2>. QED  BY <2>2 DEF Written
<1>5. Written(Len(out)) \subseteq Written(Len(out))'
  <2>1. {out[i].line : i \in 1..Len(out)} \subseteq {out'[i].line : i \in 1..Len(out')}
    BY <1>1, <1>2, <1>3
  <2>. QED  BY <2>1 DEF Written
<1>. QED  BY <1>4, <1>5

(* What a step does to the file. *)
LEMMA FileStep ==
    ASSUME Inv1, [Next]_vars
    PROVE  /\ (dead => dead') /\ m_is_async' = m_is_async
           /\ flushed' \in Nat /\ flushed <= flushed'
           /\ out' = out \/ \E e \in Entries : out' = Append(out, e)
<1>. USE DEF Goto, fileVars
<1>1. Len(out) \in Nat /\ flushed \in 0..Len(out)
  BY LenProperties DEF Inv1, Types, TypeOK
<1>2. ASSUME NEW t \in Threads, m_mutex = Unlocked, log_str[t] \in Lines, Fputs(log_str[t])
      PROVE  out' = out \/ \E e \in Entries : out' = Append(out, e)
  <2>1. CASE m_fp = Null
    BY <1>2, <2>1 DEF Fputs
  <2>2. CASE m_fp # Null
    <3>1. m_fp \in Files
      BY <1>2, <2>2, LogAssumption DEF Inv1, TypeOK, Control, Files
    <3>2. [file |-> m_fp, line |-> log_str[t]] \in Entries
      BY <1>2, <3>1 DEF Entries
    <3>. QED  BY <1>2, <3>2 DEF Fputs
  <2>. QED  BY <2>1, <2>2
<1>3. CASE PutLine
  <2>1. m_mutex = Unlocked /\ Fputs(log_str[Flusher]) /\ UNCHANGED <<flushed, m_is_async>> /\ ~dead
    BY <1>3 DEF PutLine
  <2>2. log_str[Flusher] \in Lines
    BY <1>3 DEF PutLine, Inv1, Control
  <2>. QED  BY <1>1, <1>2, <2>1, <2>2 DEF Threads
<1>4. ASSUME NEW w \in Writers, WriteDirect(w)
      PROVE  /\ (dead => dead') /\ m_is_async' = m_is_async
             /\ flushed' \in Nat /\ flushed <= flushed'
             /\ out' = out \/ \E e \in Entries : out' = Append(out, e)
  <2>1. m_mutex = Unlocked /\ Fputs(log_str[w]) /\ UNCHANGED <<flushed, m_is_async>> /\ ~dead
    BY <1>4 DEF WriteDirect
  <2>2. log_str[w] = Line(w) /\ Line(w) \in Lines
    BY <1>4 DEF WriteDirect, Inv1, OwnText, Control, Line, Lines
  <2>. QED  BY <1>1, <1>2, <2>1, <2>2 DEF Threads
<1>5. ASSUME NEW w \in Writers, \/ ReadClock(w) \/ CountLine(w) \/ CloseFile(w) \/ OpenFile(w)
                                \/ Format(w) \/ Copy(w) \/ Route(w) \/ Push(w) \/ Flush(w)
      PROVE  ~dead /\ m_is_async' = m_is_async /\ flushed' \in {flushed, Len(out)} /\ out' = out
  BY <1>5 DEF ReadClock, CountLine, CloseFile, OpenFile, Format, Copy, Route, Push, Flush
<1>6. CASE UNCHANGED vars \/ Midnight \/ PopLine
  <2>1. UNCHANGED <<dead, m_is_async, flushed, out>>
    BY <1>6 DEF vars, Midnight, PopLine
  <2>. QED  BY <1>1, <2>1
<1>. QED  BY <1>1, <1>3, <1>4, <1>5, <1>6 DEF Next, FlusherStep, WriteStep

(* Every step preserves Inv3. *)
LEMMA Inv3Step == Inv1 /\ Inv3 /\ [Next]_vars => Inv3'
<1>. SUFFICES ASSUME Inv1, Inv3, [Next]_vars, ~m_is_async', ~dead' PROVE Inv3'
  BY DEF Inv3
<1>1. ~m_is_async /\ ~dead
  BY FileStep
<1>2. /\ Written(flushed) \subseteq Written(flushed)'
      /\ Written(Len(out)) \subseteq Written(Len(out))'
  BY FileStep, WrittenGrows
<1>. DEFINE Own(v) == /\ pc[v] # "push"
                      /\ pc[v] = "flush" => Line(v) \in Written(Len(out))
                      /\ \A i \in 1..called[v] :
                             i < called[v] \/ pc[v] = "idle" => <<v, i>> \in Written(flushed)
<1>3. \A v \in Writers : Own(v)
  BY <1>1 DEF Inv3
<1>4. ASSUME NEW v \in Writers, pc'[v] = pc[v], called'[v] = called[v] PROVE Own(v)'
  BY <1>2, <1>3, <1>4 DEF Line
<1>5. CASE UNCHANGED <<pc, called>>
  BY <1>4, <1>5 DEF Inv3
<1>6. CASE FlusherStep
  BY <1>4, <1>6, LogAssumption DEF FlusherStep, PopLine, PutLine, Goto, Threads, Inv1, Types, Inv3
<1>7. ASSUME NEW w \in Writers, ReadClock(w) \/ WriteStep(w) PROVE Inv3'
  <2>1. \A v \in Writers : v # w => pc'[v] = pc[v] /\ called'[v] = called[v]
    BY <1>7 DEF ReadClock, WriteStep, CountLine, CloseFile, OpenFile, Format, Copy, Route, Push,
                WriteDirect, Flush, Goto, Inv1, Types, Threads
  <2>2. called[w] \in Nat /\ w \in DOMAIN pc /\ w \in DOMAIN called
    BY DEF Inv1, Types, Threads
  <2>3. CASE ReadClock(w)
    <3>1. pc[w] = "idle" /\ pc'[w] = "count" /\ called'[w] = called[w] + 1
      BY <2>2, <2>3 DEF ReadClock, Goto
    <3>2. \A i \in 1..called[w] : <<w, i>> \in Written(flushed)'
      BY <1>2, <1>3, <3>1
    <3>3. Own(w)'
      BY <2>2, <3>1, <3>2
    <3>. QED  BY <3>3, <1>4, <2>1 DEF Inv3
  <2>4. CASE CountLine(w) \/ CloseFile(w) \/ OpenFile(w) \/ Format(w) \/ Copy(w) \/ Route(w)
    <3>1. pc'[w] \notin {"idle", "flush", "push"} /\ called' = called
      BY <1>1, <2>2, <2>4 DEF CountLine, CloseFile, OpenFile, Format, Copy, Route, Goto
    <3>2. Own(w)'
      BY <1>2, <1>3, <3>1
    <3>. QED  BY <3>2, <1>4, <2>1 DEF Inv3
  <2>5. CASE Push(w)
    BY <1>3, <2>5 DEF Push, Goto
  <2>6. CASE WriteDirect(w)
    <3>1. pc'[w] = "flush" /\ called' = called
      BY <2>2, <2>6 DEF WriteDirect, Goto
    <3>2. log_str[w] = Line(w) /\ Line(w) \in Lines
      BY <2>6 DEF WriteDirect, Goto, Inv1, OwnText, Control, Line, Lines
    <3>3. out' = Append(out, [file |-> m_fp, line |-> Line(w)]) /\ m_fp \in Files
      BY <2>6, <3>2, FputsStep DEF WriteDirect
    <3>4. [file |-> m_fp, line |-> Line(w)] \in Entries
      BY <3>2, <3>3 DEF Entries
    <3>5. Len(out') \in 1..Len(out') /\ out'[Len(out')].line = Line(w)
      <4>. DEFINE e == [file |-> m_fp, line |-> Line(w)]
      <4>1. e.line = Line(w)
        OBVIOUS
      <4>2. out \in Seq(Entries) /\ e \in Entries /\ out' = Append(out, e)
        BY <3>3, <3>4 DEF Inv1, Types
      <4>. HIDE DEF e
      <4>3. Len(out) \in Nat /\ Len(out') = Len(out) + 1 /\ out'[Len(out) + 1] = e
        BY <4>2, AppendProperties, LenProperties
      <4>. QED  BY <4>1, <4>3
    <3>6. Line(w) \in Written(Len(out))'
      BY <3>5 DEF Written
    <3>7. Own(w)'
      BY <1>2, <1>3, <3>1, <3>6 DEF Line
    <3>. QED  BY <3>7, <1>4, <2>1 DEF Inv3
  <2>7. CASE Flush(w)
    <3>1. pc[w] = "flush" /\ pc'[w] = "idle" /\ called' = called /\ flushed' = Len(out) /\ out' = out
      BY <2>2, <2>7 DEF Flush, Goto
    <3>2. <<w, called[w]>> \in Written(flushed)'
      BY <1>3, <3>1 DEF Line, Written
    <3>3. \A i \in 1..called[w] : <<w, i>> \in Written(flushed)'
      <4>. SUFFICES ASSUME NEW i \in 1..called[w] PROVE <<w, i>> \in Written(flushed)'
        OBVIOUS
      <4>1. CASE i = called[w]  BY <3>2, <4>1
      <4>2. CASE i # called[w]
        <5>1. i < called[w]
          BY <2>2, <4>2
        <5>. QED  BY <1>2, <1>3, <5>1
      <4>. QED  BY <4>1, <4>2
    <3>4. Own(w)'
      BY <3>1, <3>3
    <3>. QED  BY <3>4, <1>4, <2>1 DEF Inv3
  <2>. QED  BY <1>7, <2>3, <2>4, <2>5, <2>6, <2>7 DEF WriteStep
<1>. QED  BY <1>5, <1>6, <1>7 DEF Next, Midnight, vars

-----------------------------------------------------------------------------
(* What follows for the logger *)

(* The three invariants hold in every reachable state. *)
LEMMA Invariance == Spec => [](Inv1 /\ Inv2 /\ Inv3)
  BY Inv1Init, Inv1Step, Inv2Init, Inv2Step, Inv3Init, Inv3Step, PTL DEF Spec

(* The type invariant of the logger. *)
THEOREM LogTypes == Spec => []TypeOK
<1>1. Inv1 => TypeOK  BY DEF Inv1
<1>. QED  BY <1>1, Invariance, PTL

(* The shared m_buf never gives a writer another thread's text: between    *)
(* vsnprintf and the copy to log_str the mutex is not released.            *)
THEOREM TextIsOwn == Spec => []OwnText
<1>1. Inv1 => OwnText  BY DEF Inv1
<1>. QED  BY <1>1, Invariance, PTL

(* No thread uses the FILE a rotation has closed: m_fp is closed only      *)
(* while the rotating thread holds m_mutex.                                *)
THEOREM ClosedFileUnused == Spec => []NoUseAfterClose
<1>1. Inv1 => NoUseAfterClose  BY DEF Inv1
<1>. QED  BY <1>1, Invariance, PTL

(* The line of a call that has returned is in exactly one place, although  *)
(* full() and push are separate calls and push's result is ignored.        *)
THEOREM EveryLineOnce == Spec => []LineOnce
<1>1. Inv2 => LineOnce  BY DEF Inv2, LineOnce, HandedOn
<1>. QED  BY <1>1, Invariance, PTL

(* In the synchronous mode a LOG_ call that has returned has flushed its   *)
(* line, although write_log and flush take the mutex separately.           *)
THEOREM SyncLogDurable == Spec => []SyncIsDurable
<1>1. Inv3 => SyncIsDurable  BY DEF Inv3, SyncIsDurable
<1>. QED  BY <1>1, Invariance, PTL
=============================================================================
