------------------------ MODULE ProcessKernelProofs ------------------------
(***************************************************************************)
(* Safety of the process kernel, for any number of processes and events    *)
(* and any nesting of calls.  StackInv describes the activations on the    *)
(* stack (Shape), the states they imply (Marked), process_current          *)
(* (Current) and the process list (Listed, CursorListed).  On top of it,   *)
(* PollInv says that the loop of do_poll still comes to every process that *)
(* waits (Comes), and BcastInv that the pointers of the list lead the loop *)
(* of a broadcast to every process that is due (Leads).  These three last  *)
(* until a process is ended in the middle of a call (torn); ListInv is     *)
(* what remains of them after that too.  The parts are stated for any      *)
(* stack s, list l and states st, so that a lemma can be about one push or *)
(* pop, of which an action makes several.                                  *)
(***************************************************************************)
EXTENDS ProcessKernel, SequenceTheorems, WellFoundedInduction, TLAPS

ProcState == {"NONE", "RUNNING", "CALLED"}

Exits(f) == f.pc \in {"notify", "unlink"}
Loops(f) == f.pc \in {"poll", "bcast", "deliver"}
IsThread(f) == f.pc = "thread"

\* The activation f alone.
Formed(f) ==
    /\ Loops(f) \/ f.pc = "notify" => f.at # NULL
    /\ f.pc = "deliver" => f.at # Start
    /\ IsUser(f) => f.p \in Proc /\ f.old \in {NULL, f.p}
    /\ Exits(f) => f.p \in Proc

\* The activation g and the one it was called by, f.  A loop has reached an element before
\* it calls; above do_poll is the process it has called; what a thread function calls has
\* saved process_current; exit_process calls the thread of its process last.
Calls(f, g) ==
    /\ Loops(f) => f.at # Start
    /\ Loops(g) => g.pc = "poll" /\ f.pc = "deliver"
    /\ f.pc = "poll" => (IsThread(g) \/ Exits(g)) /\ g.p = f.at
    /\ IsUser(f) => /\ g.pc = "synch" \/ Exits(g)
                    /\ f.old = NULL => g.old = f.p
    /\ g.pc = "on_exit" => f.pc = "unlink" /\ f.p = g.p

\* A process has at most one activation of its thread function by call_process and one
\* exit_process.
Apart(f, g) == f.p = g.p => ~(IsThread(f) /\ IsThread(g)) /\ ~(Exits(f) /\ Exits(g))

Fits(s, i) ==
    /\ Formed(s[i])
    /\ i = 1 => s[i].pc # "on_exit"
    /\ i > 1 => Calls(s[i - 1], s[i])
    /\ s[i].pc = "poll" => i <= 2
    /\ s[i].pc \in {"bcast", "deliver"} => i = 1
    /\ \A j \in 1 .. i - 1 : Apart(s[j], s[i])

Shape(s) == s \in Seq(Frames) /\ \A i \in 1 .. Len(s) : Fits(s, i)

\* The processes of which an exit_process, or a call of the thread function, is on the stack.
Leaving(s) == {p \in Proc : \E i \in 1 .. Len(s) : Exits(s[i]) /\ s[i].p = p}
Running(s) == {p \in Proc : \E i \in 1 .. Len(s) : IsThread(s[i]) /\ s[i].p = p}

\* A process is CALLED while its thread function runs, and stopped when it exits.
Marked(s, st) ==
    /\ \A p \in Leaving(s) : st[p] = "NONE"
    /\ \A p \in Proc : st[p] = "CALLED" <=> p \in Running(s)

Current(s, cur) == s # <<>> /\ IsUser(s[Len(s)]) /\ s[Len(s)].old = NULL => cur = s[Len(s)].p

\* OnList, Position, NextOf and Cursor for a list l and the pointers o of processes that have
\* left it.
Members(l) == {l[i] : i \in DOMAIN l}
Place(l, q) == CHOOSE i \in DOMAIN l : l[i] = q
After(l, o, q) ==
    IF q \notin Members(l) THEN o[q]
    ELSE IF Place(l, q) = Len(l) THEN NULL
    ELSE l[Place(l, q) + 1]
Reached(l, o, f) ==
    IF f.at # Start THEN After(l, o, f.at)
    ELSE IF l = <<>> THEN NULL ELSE l[1]

\* Every process is on the list once.
Once(l) == l \in Seq(Proc) /\ \A i, j \in 1 .. Len(l) : l[i] = l[j] => i = j

Listed(l, s, st) ==
    /\ Once(l)
    /\ \A p \in Proc : p \in Members(l) <=> st[p] # "NONE" \/ p \in Leaving(s)

KernelType ==
    /\ oldNext \in [Proc -> Proc \cup {NULL}]
    /\ state \in [Proc -> ProcState]
    /\ needspoll \in [Proc -> BOOLEAN]
    /\ process_current \in Proc \cup {NULL}
    /\ events \in Seq([ev : UserEvent, p : Proc \cup {NULL}])
    /\ wanted \subseteq Proc /\ due \subseteq Proc

\* Where do_poll goes next is on the list: the process it has called may have left, but only
\* last, so that its old successor is still there.
CursorListed(l, o, s) ==
    s # <<>> /\ s[Len(s)].pc = "poll" => Reached(l, o, s[Len(s)]) \in Members(l) \cup {NULL}

\* The invariant of the list, the states and the stack.
StackInv ==
    /\ KernelType
    /\ Shape(stack) /\ Marked(stack, state) /\ Current(stack, process_current)
    /\ Listed(process_list, stack, state)
    /\ CursorListed(process_list, oldNext, stack)

-----------------------------------------------------------------------------
(* Pushing and popping an activation.                                      *)

\* The stack without its top.
Under(s) == SubSeq(s, 1, Len(s) - 1)

LEMMA PushSeq ==
    ASSUME NEW S, NEW s \in Seq(S), NEW f \in S
    PROVE  LET t == Append(s, f)
           IN  /\ t \in Seq(S) /\ t # <<>> /\ Len(s) \in Nat /\ Len(t) = Len(s) + 1
               /\ t[Len(t)] = f /\ \A i \in 1 .. Len(s) : t[i] = s[i] /\ s[i] \in S
BY AppendProperties, LenProperties, ElementOfSeq

LEMMA PopSeq ==
    ASSUME NEW S, NEW s \in Seq(S), s # <<>>
    PROVE  LET t == Under(s)
           IN  /\ t \in Seq(S) /\ Len(t) \in Nat /\ Len(s) = Len(t) + 1 /\ s[Len(s)] \in S
               /\ \A i \in 1 .. Len(t) : t[i] = s[i] /\ s[i] \in S
<1>1. Len(s) \in Nat /\ Len(s) # 0 /\ \A i \in 1 .. Len(s) : s[i] \in S
  BY LenProperties, ElementOfSeq, EmptySeq
<1>2. 1 \in 1 .. Len(s) + 1 /\ Len(s) - 1 \in 1 - 1 .. Len(s)
  BY <1>1
<1>3. /\ Under(s) \in Seq(S)
      /\ Len(Under(s)) = IF 1 <= Len(s) - 1 THEN Len(s) - 1 - 1 + 1 ELSE 0
      /\ \A i \in 1 .. Len(s) - 1 - 1 + 1 : Under(s)[i] = s[1 + i - 1]
  BY <1>1, <1>2, SubSeqProperties DEF Under
<1>4. Len(Under(s)) = Len(s) - 1
  <2>1. CASE Len(s) = 1
    BY <1>3, <2>1
  <2>2. CASE Len(s) # 1
    <3>1. \A n \in Nat : n # 0 /\ n # 1 => 1 <= n - 1 /\ n - 1 - 1 + 1 = n - 1
      OBVIOUS
    <3>2. 1 <= Len(s) - 1 /\ Len(s) - 1 - 1 + 1 = Len(s) - 1
      BY <1>1, <2>2, <3>1
    <3> QED
      BY <1>3, <3>2
  <2> QED
    BY <2>1, <2>2
<1>5. \A i \in 1 .. Len(s) - 1 : Under(s)[i] = s[i] /\ s[i] \in S
  <2> SUFFICES ASSUME NEW i \in 1 .. Len(s) - 1 PROVE Under(s)[i] = s[i] /\ s[i] \in S
    OBVIOUS
  <2>1. i \in 1 .. Len(s) - 1 - 1 + 1 /\ 1 + i - 1 = i /\ i \in 1 .. Len(s)
    BY <1>1
  <2>2. Under(s)[i] = s[1 + i - 1]
    BY <1>3, <2>1
  <2> QED
    BY <1>1, <2>1, <2>2
<1> QED
  BY <1>1, <1>3, <1>4, <1>5

\* Whether an activation fits depends on those below it.
LEMMA SamePrefix ==
    ASSUME NEW s, NEW t, NEW k \in Nat, \A i \in 1 .. k : s[i] = t[i],
           NEW i \in 1 .. k, Fits(s, i)
    PROVE  Fits(t, i)
<1>1. t[i] = s[i] /\ (i > 1 => t[i - 1] = s[i - 1]) /\ \A j \in 1 .. i - 1 : t[j] = s[j]
  OBVIOUS
<1> QED
  BY <1>1 DEF Fits

\* The stack t is s with f, where it fits.
Pushed(s, f, t) ==
    /\ t = Append(s, f)
    /\ f \in Frames /\ Formed(f)
    /\ s = <<>> => f.pc # "on_exit"
    /\ s # <<>> => Calls(s[Len(s)], f)
    /\ f.pc = "poll" => Len(s) <= 1
    /\ f.pc \in {"bcast", "deliver"} => s = <<>>
    /\ f.p \in Running(s) => ~IsThread(f)
    /\ f.p \in Leaving(s) => ~Exits(f)

\* A push.
LEMMA Push ==
    ASSUME NEW s, Shape(s), NEW f, NEW t, Pushed(s, f, t)
    PROVE  /\ Shape(t) /\ t # <<>> /\ t[Len(t)] = f
           /\ Len(s) \in Nat /\ Len(t) = Len(s) + 1 /\ \A i \in 1 .. Len(s) : t[i] = s[i]
           /\ Running(t) = Running(s) \cup IF IsThread(f) THEN {f.p} ELSE {}
           /\ Leaving(t) = Leaving(s) \cup IF Exits(f) THEN {f.p} ELSE {}
<1> USE DEF Pushed
<1>1. s \in Seq(Frames) /\ \A i \in 1 .. Len(s) : Fits(s, i)
  BY DEF Shape
<1>2. /\ t \in Seq(Frames) /\ t # <<>> /\ Len(s) \in Nat /\ Len(t) = Len(s) + 1
      /\ t[Len(t)] = f /\ \A i \in 1 .. Len(s) : t[i] = s[i] /\ s[i] \in Frames
  BY <1>1, PushSeq
<1>3. Len(s) # 0 <=> s # <<>>
  BY <1>1, EmptySeq
<1>4. \A i \in 1 .. Len(t) : i \in 1 .. Len(s) \/ i = Len(s) + 1
  BY <1>2
<1>5. \A i \in 1 .. Len(s) : Fits(t, i)
  BY <1>1, <1>2, SamePrefix
<1>6. Fits(t, Len(s) + 1)
  <2> DEFINE n == Len(s) + 1
  <2>1. t[n] = f /\ (n = 1 <=> s = <<>>) /\ (n > 1 => n - 1 = Len(s) /\ t[n - 1] = s[Len(s)])
    BY <1>2, <1>3
  <2>2. n \in Nat /\ n > 0 /\ (n > 1 <=> s # <<>>) /\ (Len(s) <= 1 => n <= 2)
    BY <1>2, <1>3
  <2>3. f.p \in Proc \/ (~IsThread(f) /\ ~Exits(f))
    BY DEF Formed, IsUser, IsThread
  <2>4. \A j \in 1 .. n - 1 : Apart(t[j], t[n])
    <3> SUFFICES ASSUME NEW j \in 1 .. n - 1 PROVE Apart(t[j], t[n])
      OBVIOUS
    <3>1. j \in 1 .. Len(s) /\ t[j] = s[j]
      BY <1>2
    <3> QED
      BY <2>1, <2>3, <3>1 DEF Apart, Running, Leaving
  <2> QED
    BY <2>1, <2>2, <2>4 DEF Fits
<1>7. Shape(t)
  BY <1>2, <1>4, <1>5, <1>6 DEF Shape
<1>8. /\ IsThread(f) \/ Exits(f) => f.p \in Proc
      /\ Len(s) + 1 \in 1 .. Len(t) /\ \A i \in 1 .. Len(s) : i \in 1 .. Len(t)
  BY <1>2 DEF Formed, IsUser, IsThread
<1>9. Running(t) = Running(s) \cup IF IsThread(f) THEN {f.p} ELSE {}
  BY <1>2, <1>4, <1>8 DEF Running
<1>10. Leaving(t) = Leaving(s) \cup IF Exits(f) THEN {f.p} ELSE {}
  BY <1>2, <1>4, <1>8 DEF Leaving
<1> QED
  BY <1>2, <1>7, <1>9, <1>10

\* A pop.
LEMMA Pop ==
    ASSUME NEW s, Shape(s), s # <<>>
    PROVE  LET t == Under(s)
               f == s[Len(s)]
           IN  /\ Shape(t) /\ f \in Frames /\ Formed(f)
               /\ Len(t) \in Nat /\ Len(s) = Len(t) + 1 /\ \A i \in 1 .. Len(t) : t[i] = s[i]
               /\ t = <<>> => f.pc # "on_exit"
               /\ t # <<>> => Calls(t[Len(t)], f)
               /\ f.pc = "poll" => Len(t) <= 1
               /\ f.pc \in {"bcast", "deliver"} => t = <<>>
               /\ Running(s) = Running(t) \cup IF IsThread(f) THEN {f.p} ELSE {}
               /\ Leaving(s) = Leaving(t) \cup IF Exits(f) THEN {f.p} ELSE {}
               /\ IsThread(f) => f.p \notin Running(t)
               /\ Exits(f) => f.p \notin Leaving(t)
<1> DEFINE t == Under(s)
           f == s[Len(s)]
<1>1. s \in Seq(Frames) /\ \A i \in 1 .. Len(s) : Fits(s, i)
  BY DEF Shape
<1>2. /\ t \in Seq(Frames) /\ Len(t) \in Nat /\ Len(s) = Len(t) + 1 /\ f \in Frames
      /\ \A i \in 1 .. Len(t) : t[i] = s[i] /\ s[i] \in Frames
  BY <1>1, PopSeq
<1>3. Len(t) # 0 <=> t # <<>>
  BY <1>2, EmptySeq
<1> HIDE DEF t
<1>4. \A i \in 1 .. Len(s) : i \in 1 .. Len(t) \/ i = Len(s)
  BY <1>2
<1>5. Shape(t)
  <2> SUFFICES ASSUME NEW i \in 1 .. Len(t) PROVE Fits(t, i)
    BY <1>2 DEF Shape
  <2>1. Fits(s, i)
    BY <1>1, <1>2
  <2> QED
    BY <1>2, <2>1, SamePrefix
<1>6. Len(s) \in 1 .. Len(s) /\ Fits(s, Len(s)) /\ (t # <<>> => Len(s) > 1 /\ s[Len(s) - 1] = t[Len(t)])
  BY <1>1, <1>2, <1>3
<1>7. /\ Formed(f) /\ (t = <<>> => f.pc # "on_exit")
      /\ t # <<>> => Calls(t[Len(t)], f)
      /\ f.pc = "poll" => Len(t) <= 1
      /\ f.pc \in {"bcast", "deliver"} => t = <<>>
      /\ \A j \in 1 .. Len(t) : Apart(t[j], f)
  BY <1>2, <1>3, <1>6 DEF Fits
<1>8. /\ IsThread(f) \/ Exits(f) => f.p \in Proc
      /\ \A i \in 1 .. Len(t) : i \in 1 .. Len(s)
  BY <1>2, <1>7 DEF Formed, IsUser, IsThread
<1>9. Running(s) = Running(t) \cup IF IsThread(f) THEN {f.p} ELSE {}
  BY <1>2, <1>4, <1>6, <1>8 DEF Running
<1>10. Leaving(s) = Leaving(t) \cup IF Exits(f) THEN {f.p} ELSE {}
  BY <1>2, <1>4, <1>6, <1>8 DEF Leaving
<1>11. (IsThread(f) => f.p \notin Running(t)) /\ (Exits(f) => f.p \notin Leaving(t))
  BY <1>7 DEF Apart, Running, Leaving
<1> QED
  BY <1>2, <1>5, <1>7, <1>9, <1>10, <1>11 DEF t

-----------------------------------------------------------------------------
(* The list.                                                               *)

LEMMA InModel ==
    /\ OnList = Members(process_list)
    /\ \A q : Position(q) = Place(process_list, q)
    /\ \A q : NextOf(q) = After(process_list, oldNext, q)
    /\ \A f : Cursor(f) = Reached(process_list, oldNext, f)
<1>1. /\ OnList = Members(process_list)
      /\ \A q : Position(q) = Place(process_list, q)
  BY DEF OnList, Members, Position, Place
<1>2. \A q : NextOf(q) = After(process_list, oldNext, q)
  BY <1>1 DEF NextOf, After
<1> QED
  BY <1>1, <1>2 DEF Cursor, Reached

\* The element at index k and its successor.
LEMMA AtIndex ==
    ASSUME NEW l, Once(l), NEW o, NEW k \in 1 .. Len(l)
    PROVE  /\ Len(l) \in Nat /\ DOMAIN l = 1 .. Len(l) /\ l[k] \in Proc /\ l[k] \in Members(l)
           /\ Place(l, l[k]) = k
           /\ After(l, o, l[k]) = IF k = Len(l) THEN NULL ELSE l[k + 1]
<1>1. /\ Len(l) \in Nat /\ DOMAIN l = 1 .. Len(l) /\ l[k] \in Proc
  BY LenProperties, ElementOfSeq DEF Once
<1>2. l[k] \in Members(l)
  BY <1>1 DEF Members
<1>3. Place(l, l[k]) = k
  BY <1>1 DEF Place, Once
<1> QED
  BY <1>1, <1>2, <1>3 DEF After

LEMMA HasIndex ==
    ASSUME NEW l, Once(l), NEW q \in Members(l)
    PROVE  /\ \E k \in 1 .. Len(l) : q = l[k]
           /\ Place(l, q) \in 1 .. Len(l) /\ l[Place(l, q)] = q
<1>1. \E k \in 1 .. Len(l) : q = l[k]
  BY LenProperties DEF Members, Once
<1> QED
  BY <1>1, AtIndex

LEMMA MembersType ==
    ASSUME NEW l, Once(l)
    PROVE  Members(l) \subseteq Proc
<1> SUFFICES ASSUME NEW q \in Members(l) PROVE q \in Proc
  OBVIOUS
<1>1. PICK k \in 1 .. Len(l) : q = l[k]
  BY HasIndex
<1> QED
  BY <1>1, AtIndex

\* The successor of a member is a member, or there is none.
LEMMA AfterMember ==
    ASSUME NEW l, Once(l), NEW o, NEW q \in Members(l)
    PROVE  After(l, o, q) \in Members(l) \cup {NULL} /\ After(l, o, q) # q
<1>1. PICK k \in 1 .. Len(l) : q = l[k]
  BY HasIndex
<1>2. /\ Len(l) \in Nat /\ After(l, o, q) = IF k = Len(l) THEN NULL ELSE l[k + 1]
      /\ q \in Proc
  BY <1>1, AtIndex
<1>3. CASE k = Len(l)
  BY <1>2, <1>3, KernelAssumption
<1>4. CASE k # Len(l)
  <2>1. k + 1 \in 1 .. Len(l) /\ k # k + 1
    BY <1>2, <1>4
  <2>2. l[k + 1] \in Members(l) /\ l[k + 1] # l[k]
    BY <2>1, AtIndex DEF Once
  <2> QED
    BY <1>1, <1>2, <1>4, <2>2
<1> QED
  BY <1>3, <1>4

\* process_start puts p at the head.
LEMMA AtHead ==
    ASSUME NEW l, Once(l), NEW p \in Proc, p \notin Members(l)
    PROVE  LET m == <<p>> \o l
           IN  /\ Once(m) /\ m # <<>> /\ Len(l) \in Nat /\ Len(m) = Len(l) + 1 /\ m[1] = p
               /\ \A i \in 1 .. Len(l) : m[i + 1] = l[i]
               /\ Members(m) = Members(l) \cup {p}
<1> DEFINE m == <<p>> \o l
<1>1. <<p>> \in Seq(Proc) /\ Len(<<p>>) = 1 /\ <<p>>[1] = p /\ l \in Seq(Proc) /\ Len(l) \in Nat
  BY LenProperties DEF Once
<1>2. /\ m \in Seq(Proc) /\ Len(m) = 1 + Len(l)
      /\ \A i \in 1 .. 1 + Len(l) : m[i] = IF i <= 1 THEN <<p>>[i] ELSE l[i - 1]
  BY <1>1, ConcatProperties
<1> HIDE DEF m
<1>3. Len(m) = Len(l) + 1 /\ m[1] = p /\ \A i \in 1 .. Len(l) : m[i + 1] = l[i]
  <2>1. m[1] = p
    BY <1>1, <1>2
  <2>2. ASSUME NEW i \in 1 .. Len(l) PROVE m[i + 1] = l[i]
    <3>1. i + 1 \in 1 .. 1 + Len(l) /\ ~(i + 1 <= 1) /\ i + 1 - 1 = i
      BY <1>1
    <3> QED
      BY <1>2, <3>1
  <2> QED
    BY <1>1, <1>2, <2>1, <2>2
<1>4. \A i \in 1 .. Len(m) : i = 1 \/ (i - 1 \in 1 .. Len(l) /\ m[i] = l[i - 1])
  <2> SUFFICES ASSUME NEW i \in 1 .. Len(m), i # 1 PROVE i - 1 \in 1 .. Len(l) /\ m[i] = l[i - 1]
    OBVIOUS
  <2>1. i - 1 \in 1 .. Len(l) /\ i - 1 + 1 = i
    BY <1>1, <1>3
  <2> QED
    BY <1>3, <2>1
<1>5. \A i \in 1 .. Len(l) : l[i] # p /\ l[i] \in Members(l)
  BY AtIndex
<1>6. Once(m)
  <2> SUFFICES ASSUME NEW i \in 1 .. Len(m), NEW j \in 1 .. Len(m), m[i] = m[j] PROVE i = j
    BY <1>2 DEF Once
  <2>1. CASE i = 1 \/ j = 1
    BY <1>3, <1>4, <1>5, <2>1
  <2>2. CASE i # 1 /\ j # 1
    <3>1. i - 1 = j - 1
      BY <1>4, <2>2 DEF Once
    <3> QED
      BY <1>1, <1>3, <3>1
  <2> QED
    BY <2>1, <2>2
<1>7. Members(m) = Members(l) \cup {p}
  <2>1. DOMAIN m = 1 .. Len(m) /\ DOMAIN l = 1 .. Len(l)
    BY <1>1, <1>2, LenProperties
  <2>2. 1 \in 1 .. Len(m) /\ \A i \in 1 .. Len(l) : i + 1 \in 1 .. Len(m)
    BY <1>1, <1>3
  <2>3. Members(m) \subseteq Members(l) \cup {p}
    <3> SUFFICES ASSUME NEW q \in Members(m) PROVE q \in Members(l) \cup {p}
      OBVIOUS
    <3>1. PICK i \in 1 .. Len(m) : q = m[i]
      BY <2>1 DEF Members
    <3> QED
      BY <1>3, <1>4, <1>5, <3>1
  <2>4. Members(l) \cup {p} \subseteq Members(m)
    <3>1. p \in Members(m)
      BY <1>3, <2>1, <2>2 DEF Members
    <3>2. ASSUME NEW q \in Members(l) PROVE q \in Members(m)
      <4>1. PICK i \in 1 .. Len(l) : q = l[i]
        BY <2>1 DEF Members
      <4>2. i + 1 \in DOMAIN m /\ m[i + 1] = q
        BY <1>3, <2>1, <2>2, <4>1
      <4> QED
        BY <4>2 DEF Members
    <3> QED
      BY <3>1, <3>2
  <2> QED
    BY <2>3, <2>4
<1>8. m # <<>>
  BY <1>1, <1>3
<1> QED
  BY <1>1, <1>3, <1>6, <1>7, <1>8 DEF m

\* exit_process takes the element at index k out.
Cut(l, k) == SubSeq(l, 1, k - 1) \o SubSeq(l, k + 1, Len(l))

LEMMA TakenOut ==
    ASSUME NEW l, Once(l), NEW k \in 1 .. Len(l)
    PROVE  LET m == Cut(l, k)
           IN  /\ Once(m) /\ Len(l) \in Nat /\ Len(m) = Len(l) - 1
               /\ \A i \in 1 .. k - 1 : m[i] = l[i]
               /\ \A i \in k .. Len(l) - 1 : m[i] = l[i + 1]
               /\ Members(m) = Members(l) \ {l[k]}
<1> DEFINE a == SubSeq(l, 1, k - 1)
           b == SubSeq(l, k + 1, Len(l))
           m == Cut(l, k)
<1>1. l \in Seq(Proc) /\ Len(l) \in Nat /\ k \in Nat /\ k > 0 /\ k <= Len(l)
  BY LenProperties DEF Once
<1>2. a \in Seq(Proc) /\ Len(a) = k - 1 /\ \A i \in 1 .. k - 1 : a[i] = l[i]
  <2>1. /\ 1 \in 1 .. Len(l) + 1 /\ k - 1 \in 1 - 1 .. Len(l)
    BY <1>1
  <2>2. /\ a \in Seq(Proc) /\ Len(a) = IF 1 <= k - 1 THEN k - 1 - 1 + 1 ELSE 0
        /\ \A i \in 1 .. k - 1 - 1 + 1 : a[i] = l[1 + i - 1]
    BY <1>1, <2>1, SubSeqProperties
  <2> HIDE DEF a
  <2>3. Len(a) = k - 1
    BY <1>1, <2>2
  <2>4. k - 1 - 1 + 1 = k - 1 /\ \A i \in 1 .. k - 1 : 1 + i - 1 = i
    BY <1>1
  <2> QED
    BY <2>2, <2>3, <2>4
<1>3. b \in Seq(Proc) /\ Len(b) = Len(l) - k /\ \A i \in 1 .. Len(l) - k : b[i] = l[k + i]
  <2>1. /\ k + 1 \in 1 .. Len(l) + 1 /\ Len(l) \in k + 1 - 1 .. Len(l)
    BY <1>1
  <2>2. /\ b \in Seq(Proc) /\ Len(b) = IF k + 1 <= Len(l) THEN Len(l) - (k + 1) + 1 ELSE 0
        /\ \A i \in 1 .. Len(l) - (k + 1) + 1 : b[i] = l[k + 1 + i - 1]
    BY <1>1, <2>1, SubSeqProperties
  <2> HIDE DEF b
  <2>3. Len(b) = Len(l) - k
    BY <1>1, <2>2
  <2>4. Len(l) - (k + 1) + 1 = Len(l) - k /\ \A i \in 1 .. Len(l) - k : k + 1 + i - 1 = k + i
    BY <1>1
  <2> QED
    BY <2>2, <2>3, <2>4
<1>4. /\ m \in Seq(Proc) /\ Len(m) = Len(a) + Len(b)
      /\ \A i \in 1 .. Len(a) + Len(b) : m[i] = IF i <= Len(a) THEN a[i] ELSE b[i - Len(a)]
  BY <1>2, <1>3, ConcatProperties DEF Cut
<1> HIDE DEF a, b, m
<1>5. Len(m) = Len(l) - 1 /\ Len(l) - 1 \in Nat
  BY <1>1, <1>2, <1>3, <1>4
<1>6. ASSUME NEW i \in 1 .. k - 1 PROVE m[i] = l[i]
  <2>1. i \in 1 .. Len(a) + Len(b) /\ i <= Len(a)
    BY <1>1, <1>2, <1>3
  <2> QED
    BY <1>2, <1>4, <2>1
<1>7. ASSUME NEW i \in k .. Len(l) - 1 PROVE m[i] = l[i + 1]
  <2>1. /\ i \in 1 .. Len(a) + Len(b) /\ ~(i <= Len(a)) /\ i - Len(a) \in 1 .. Len(l) - k
        /\ k + (i - Len(a)) = i + 1
    BY <1>1, <1>2, <1>3
  <2> QED
    BY <1>3, <1>4, <2>1
<1>8. \A i \in 1 .. Len(m) : \/ i \in 1 .. k - 1 /\ i \in 1 .. Len(l) /\ i # k /\ m[i] = l[i]
                             \/ i \in k .. Len(l) - 1 /\ i + 1 \in 1 .. Len(l) /\ i + 1 # k /\ m[i] = l[i + 1]
  <2> SUFFICES ASSUME NEW i \in 1 .. Len(m)
               PROVE  \/ i \in 1 .. k - 1 /\ i \in 1 .. Len(l) /\ i # k /\ m[i] = l[i]
                      \/ i \in k .. Len(l) - 1 /\ i + 1 \in 1 .. Len(l) /\ i + 1 # k /\ m[i] = l[i + 1]
    OBVIOUS
  <2>1. \/ i \in 1 .. k - 1 /\ i \in 1 .. Len(l) /\ i # k
        \/ i \in k .. Len(l) - 1 /\ i + 1 \in 1 .. Len(l) /\ i + 1 # k
    BY <1>1, <1>5
  <2> QED
    BY <1>6, <1>7, <2>1
<1>9. Once(m)
  <2> SUFFICES ASSUME NEW i \in 1 .. Len(m), NEW j \in 1 .. Len(m), m[i] = m[j] PROVE i = j
    BY <1>4 DEF Once
  <2>1. \A x, y \in 1 .. Len(l) : l[x] = l[y] => x = y
    BY DEF Once
  <2>2. CASE i \in 1 .. k - 1
    <3>1. i \in 1 .. Len(l) /\ m[i] = l[i]
      BY <1>1, <1>6, <2>2
    <3>2. CASE j \in 1 .. k - 1
      <4>1. j \in 1 .. Len(l) /\ m[j] = l[j]
        BY <1>1, <1>6, <3>2
      <4> QED
        BY <2>1, <3>1, <4>1
    <3>3. CASE j \in k .. Len(l) - 1
      <4>1. j + 1 \in 1 .. Len(l) /\ m[j] = l[j + 1]
        BY <1>1, <1>7, <3>3
      <4>2. i = j + 1
        BY <2>1, <3>1, <4>1
      <4> QED
        BY <1>1, <2>2, <3>3, <4>2
    <3> QED
      BY <1>8, <3>2, <3>3
  <2>3. CASE i \in k .. Len(l) - 1
    <3>1. i + 1 \in 1 .. Len(l) /\ m[i] = l[i + 1]
      BY <1>1, <1>7, <2>3
    <3>2. CASE j \in 1 .. k - 1
      <4>1. j \in 1 .. Len(l) /\ m[j] = l[j]
        BY <1>1, <1>6, <3>2
      <4>2. j = i + 1
        BY <2>1, <3>1, <4>1
      <4> QED
        BY <1>1, <2>3, <3>2, <4>2
    <3>3. CASE j \in k .. Len(l) - 1
      <4>1. j + 1 \in 1 .. Len(l) /\ m[j] = l[j + 1]
        BY <1>1, <1>7, <3>3
      <4>2. i + 1 = j + 1
        BY <2>1, <3>1, <4>1
      <4> QED
        BY <1>1, <4>2
    <3> QED
      BY <1>8, <3>2, <3>3
  <2> QED
    BY <1>8, <2>2, <2>3
<1>10. DOMAIN m = 1 .. Len(m) /\ DOMAIN l = 1 .. Len(l)
  BY <1>1, <1>4, LenProperties
<1>11. Members(m) \subseteq Members(l) \ {l[k]}
  <2> SUFFICES ASSUME NEW q \in Members(m) PROVE q \in Members(l) /\ q # l[k]
    OBVIOUS
  <2>1. PICK i \in 1 .. Len(m) : q = m[i]
    BY <1>10 DEF Members
  <2>2. PICK j \in 1 .. Len(l) : j # k /\ q = l[j]
    BY <1>8, <2>1
  <2>3. q \in Members(l)
    BY <1>10, <2>2 DEF Members
  <2> QED
    BY <2>2, <2>3 DEF Once
<1>12. Members(l) \ {l[k]} \subseteq Members(m)
  <2> SUFFICES ASSUME NEW q \in Members(l), q # l[k] PROVE q \in Members(m)
    OBVIOUS
  <2>1. PICK i \in 1 .. Len(l) : q = l[i]
    BY <1>10 DEF Members
  <2>2. CASE i < k
    <3>1. i \in 1 .. k - 1 /\ i \in 1 .. Len(m)
      BY <1>1, <1>5, <2>2
    <3> QED
      BY <1>6, <1>10, <2>1, <3>1 DEF Members
  <2>3. CASE i > k
    <3>1. i - 1 \in k .. Len(l) - 1 /\ i - 1 \in 1 .. Len(m) /\ i - 1 + 1 = i
      BY <1>1, <1>5, <2>3
    <3>2. m[i - 1] = q
      BY <1>7, <2>1, <3>1
    <3> QED
      BY <1>10, <3>1, <3>2 DEF Members
  <2> QED
    BY <1>1, <2>1, <2>2, <2>3
<1>13. Members(m) = Members(l) \ {l[k]}
  BY <1>11, <1>12
<1> QED
  BY <1>1, <1>5, <1>6, <1>7, <1>9, <1>13 DEF m

-----------------------------------------------------------------------------
(* The functions of process.c.                                             *)

\* The names of the activations.
LEMMA FrameKinds ==
    ASSUME NEW f \in Frames
    PROVE  /\ f.pc \in {"thread", "on_exit", "synch", "notify", "unlink", "poll", "bcast", "deliver"}
           /\ f.p \in Proc \cup {NULL} /\ f.at \in Proc \cup {NULL, Start}
           /\ f.old \in Proc \cup {NULL} /\ f.ev \in Event
           /\ f.from \in Proc \cup {NULL} /\ f.n \in 0 .. MaxCalls
BY DEF Frames

\* The stack s may call the thread function of p, or exit_process(p).
MayEnter(s, p) ==
    s # <<>> => LET f == s[Len(s)]
                IN  (Loops(f) => f.at # Start) /\ (f.pc = "poll" => f.at = p)

\* call_process: the states of the other processes stay, and none starts or stops.
LEMMA CallProcess ==
    ASSUME NEW st \in [Proc -> ProcState], NEW p \in Proc, NEW ev \in Event, NEW rest,
           Shape(rest), Marked(rest, st), process_current \in Proc \cup {NULL},
           rest # <<>> => ~IsUser(rest[Len(rest)]), MayEnter(rest, p),
           call_process(st, p, ev, rest)
    PROVE  /\ Shape(stack') /\ Marked(stack', state') /\ Current(stack', process_current')
           /\ Leaving(stack') = Leaving(rest)
           /\ state' \in [Proc -> ProcState] /\ process_current' \in Proc \cup {NULL}
           /\ \A q \in Proc : state'[q] = "NONE" <=> st[q] = "NONE"
           /\ IF st[p] = "RUNNING" THEN stack' = Append(rest, Thread(p, ev)) ELSE stack' = rest
<1>1. CASE st[p] = "RUNNING"
  <2> DEFINE g == Thread(p, ev)
  <2>1. /\ process_current' = p /\ state' = [st EXCEPT ![p] = "CALLED"] /\ stack' = Append(rest, g)
    BY <1>1 DEF call_process
  <2>2. /\ g \in Frames /\ g.pc = "thread" /\ g.p = p /\ g.old = NULL
    BY KernelAssumption DEF Thread, Frame, Frames
  <2> HIDE DEF g
  <2>3. IsThread(g) /\ IsUser(g) /\ ~Exits(g) /\ ~Loops(g) /\ Formed(g)
    BY <2>2 DEF IsThread, IsUser, Exits, Loops, Formed
  <2>4. p \notin Running(rest)
    BY <1>1 DEF Marked
  <2>5. rest # <<>> => Calls(rest[Len(rest)], g)
    BY <2>2, <2>3 DEF Calls, MayEnter
  <2>10. Pushed(rest, g, stack')
    BY <2>1, <2>2, <2>3, <2>4, <2>5 DEF Pushed
  <2>6. /\ Shape(stack') /\ stack' # <<>> /\ stack'[Len(stack')] = g
        /\ Running(stack') = Running(rest) \cup IF IsThread(g) THEN {g.p} ELSE {}
        /\ Leaving(stack') = Leaving(rest) \cup IF Exits(g) THEN {g.p} ELSE {}
    BY <2>10, Push
  <2>7. /\ state' \in [Proc -> ProcState] /\ state'[p] = "CALLED"
        /\ \A q \in Proc : q # p => state'[q] = st[q]
    BY <2>1 DEF ProcState
  <2>8. Marked(stack', state')
    BY <1>1, <2>2, <2>3, <2>6, <2>7 DEF Marked, Leaving
  <2>9. Current(stack', process_current')
    BY <2>1, <2>2, <2>6 DEF Current
  <2> QED
    BY <1>1, <2>1, <2>3, <2>6, <2>7, <2>8, <2>9 DEF g
<1>2. CASE st[p] # "RUNNING"
  BY <1>2 DEF call_process, Current
<1> QED
  BY <1>1, <1>2

\* The states of the processes but p.
MarkedBut(p, s, st) ==
    /\ \A q \in Leaving(s) : st[q] = "NONE"
    /\ \A q \in Proc \ {p} : st[q] = "CALLED" <=> q \in Running(s)

\* exit_process of a process that is on the list and runs, up to its loop.
LEMMA ExitProcess ==
    ASSUME NEW p \in Proc, NEW from \in Proc \cup {NULL}, NEW rest, Shape(rest),
           state \in [Proc -> ProcState], process_current \in Proc \cup {NULL},
           p \in OnList, state[p] # "NONE", p \notin Running(rest), p \notin Leaving(rest),
           MarkedBut(p, rest, state),
           Current(rest, process_current), MayEnter(rest, p),
           exit_process(p, from, rest)
    PROVE  /\ Shape(stack') /\ Marked(stack', state') /\ Current(stack', process_current')
           /\ Leaving(stack') = Leaving(rest) \cup {p}
           /\ state' \in [Proc -> ProcState] /\ process_current' = process_current
           /\ state'[p] = "NONE" /\ \A q \in Proc \ {p} : state'[q] = state[q]
           /\ wanted' = wanted \ {p} /\ due' = due \ {p}
           /\ \E f \in Frames : stack' = Append(rest, f) /\ f.pc = "notify"
<1> DEFINE g == Frame("notify", p, "EXIT", Start, process_current, from)
<1>1. /\ process_current' = process_current /\ state' = [state EXCEPT ![p] = "NONE"]
      /\ stack' = Append(rest, g) /\ wanted' = wanted \ {p} /\ due' = due \ {p}
  BY DEF exit_process
<1>2. /\ g \in Frames /\ g.pc = "notify" /\ g.p = p /\ g.old = process_current /\ g.at = Start
  BY KernelAssumption DEF Frame, Frames, Event
<1> HIDE DEF g
<1>3. ~IsThread(g) /\ ~IsUser(g) /\ Exits(g) /\ ~Loops(g) /\ Formed(g)
  BY <1>2, KernelAssumption DEF IsThread, IsUser, Exits, Loops, Formed
<1>4. rest # <<>> => Calls(rest[Len(rest)], g)
  BY <1>2, <1>3 DEF Calls, MayEnter, Current
<1>5. /\ Shape(stack') /\ stack' # <<>> /\ stack'[Len(stack')] = g
      /\ Running(stack') = Running(rest) \cup IF IsThread(g) THEN {g.p} ELSE {}
      /\ Leaving(stack') = Leaving(rest) \cup IF Exits(g) THEN {g.p} ELSE {}
  <2>1. /\ g.pc \notin {"on_exit", "poll", "bcast", "deliver"}
        /\ g.p \in Running(rest) => ~IsThread(g)
        /\ g.p \in Leaving(rest) => ~Exits(g)
    BY <1>2
  <2>2. Pushed(rest, g, stack')
    BY <1>1, <1>2, <1>3, <1>4, <2>1 DEF Pushed
  <2> QED
    BY <2>2, Push
<1>6. /\ state' \in [Proc -> ProcState] /\ state'[p] = "NONE"
      /\ \A q \in Proc : q # p => state'[q] = state[q]
  BY <1>1 DEF ProcState
<1>7. Marked(stack', state')
  <2>1. \A q \in Leaving(rest) : q \in Proc
    BY DEF Leaving
  <2> QED
    BY <1>2, <1>3, <1>5, <1>6, <2>1 DEF Marked, MarkedBut
<1>8. Current(stack', process_current')
  BY <1>3, <1>5 DEF Current
<1> QED
  BY <1>1, <1>2, <1>3, <1>5, <1>6, <1>7, <1>8

\* The activation f on top goes on to g.
GoesOn(f, g) ==
    /\ g \in Frames /\ Formed(g) /\ g.p = f.p /\ (~IsUser(f) => g.old = f.old)
    /\ \/ g.pc = f.pc
       \/ f.pc = "notify" /\ g.pc = "unlink"
       \/ f.pc = "bcast" /\ g.pc = "deliver"
       \/ f.pc = "deliver" /\ g.pc = "bcast"

Retopped(s, f, g, t) == s # <<>> /\ f = s[Len(s)] /\ GoesOn(f, g) /\ t = Append(Under(s), g)

LEMMA Retop ==
    ASSUME NEW s, Shape(s), NEW f, NEW g, NEW t, Retopped(s, f, g, t)
    PROVE  /\ Shape(t) /\ t # <<>> /\ t[Len(t)] = g
           /\ Len(t) = Len(s) /\ \A i \in 1 .. Len(s) - 1 : t[i] = s[i]
           /\ Running(t) = Running(s) /\ Leaving(t) = Leaving(s)
<1> USE DEF Retopped, GoesOn
<1> DEFINE u == Under(s)
<1>1. /\ Shape(u) /\ f \in Frames /\ Formed(f)
      /\ Len(u) \in Nat /\ Len(s) = Len(u) + 1 /\ \A i \in 1 .. Len(u) : u[i] = s[i]
      /\ u = <<>> => f.pc # "on_exit"
      /\ u # <<>> => Calls(u[Len(u)], f)
      /\ f.pc = "poll" => Len(u) <= 1
      /\ f.pc \in {"bcast", "deliver"} => u = <<>>
      /\ Running(s) = Running(u) \cup IF IsThread(f) THEN {f.p} ELSE {}
      /\ Leaving(s) = Leaving(u) \cup IF Exits(f) THEN {f.p} ELSE {}
      /\ IsThread(f) => f.p \notin Running(u)
      /\ Exits(f) => f.p \notin Leaving(u)
  BY Pop
<1> HIDE DEF u
<1>2. /\ IsThread(f) <=> IsThread(g)
      /\ Exits(f) <=> Exits(g)
      /\ Loops(f) <=> Loops(g)
      /\ IsUser(f) <=> IsUser(g)
  BY DEF IsThread, Exits, Loops, IsUser
<1>3. u # <<>> => Calls(u[Len(u)], g)
  <2> SUFFICES ASSUME u # <<>>, NEW h, h = u[Len(u)] PROVE Calls(h, g)
    OBVIOUS
  <2>1. Calls(h, f)
    BY <1>1
  <2>2. Loops(g) => g.pc = f.pc
    BY <1>1, <2>1 DEF Calls, Loops
  <2>3. /\ g.pc = "synch" <=> f.pc = "synch"
        /\ g.pc = "on_exit" <=> f.pc = "on_exit"
    OBVIOUS
  <2>4. IsUser(h) => ~IsUser(f)
    BY <2>1 DEF Calls, IsUser, Exits
  <2> QED
    BY <1>2, <2>1, <2>2, <2>3, <2>4 DEF Calls
<1>4. /\ u = <<>> => g.pc # "on_exit"
      /\ g.pc = "poll" => Len(u) <= 1
      /\ g.pc \in {"bcast", "deliver"} => u = <<>>
      /\ g.p \in Running(u) => ~IsThread(g)
      /\ g.p \in Leaving(u) => ~Exits(g)
  BY <1>1, <1>2
<1>5. t = Append(u, g) /\ Shape(u) /\ Pushed(u, g, t)
  BY <1>1, <1>3, <1>4 DEF u, Pushed
<1>6. /\ Shape(t) /\ t # <<>> /\ t[Len(t)] = g
      /\ Len(t) = Len(u) + 1 /\ \A i \in 1 .. Len(u) : t[i] = u[i]
      /\ Running(t) = Running(u) \cup IF IsThread(g) THEN {g.p} ELSE {}
      /\ Leaving(t) = Leaving(u) \cup IF Exits(g) THEN {g.p} ELSE {}
  BY <1>5, Push
<1>7. Len(t) = Len(s) /\ \A i \in 1 .. Len(s) - 1 : t[i] = s[i]
  BY <1>1, <1>6
<1>8. Running(t) = Running(s) /\ Leaving(t) = Leaving(s)
  BY <1>1, <1>2, <1>6
<1> QED
  BY <1>6, <1>7, <1>8

LEMMA TopFacts ==
    ASSUME Shape(stack), stack # <<>>
    PROVE  /\ Below = Under(stack) /\ Top = stack[Len(stack)]
           /\ Shape(Below) /\ Top \in Frames /\ Formed(Top)
           /\ Len(Below) \in Nat /\ Len(stack) = Len(Below) + 1
           /\ \A i \in 1 .. Len(Below) : Below[i] = stack[i]
           /\ Below # <<>> => Calls(Below[Len(Below)], Top)
           /\ Running(stack) = Running(Below) \cup IF IsThread(Top) THEN {Top.p} ELSE {}
           /\ Leaving(stack) = Leaving(Below) \cup IF Exits(Top) THEN {Top.p} ELSE {}
           /\ IsThread(Top) => Top.p \notin Running(Below)
           /\ Exits(Top) => Top.p \notin Leaving(Below)
<1>1. Below = Under(stack) /\ Top = stack[Len(stack)]
  BY DEF Below, Under, Top
<1> QED
  BY <1>1, Pop

\* The next element of a loop is a process or NULL.
LEMMA ReachedType ==
    ASSUME NEW l, Once(l), NEW o \in [Proc -> Proc \cup {NULL}], NEW f, f.at \in Proc \cup {Start}
    PROVE  Reached(l, o, f) \in Proc \cup {NULL}
<1>1. CASE f.at = Start
  <2>1. l # <<>> => l[1] \in Proc
    BY ElementOfSeq, EmptySeq, LenProperties DEF Once
  <2> QED
    BY <1>1, <2>1 DEF Reached
<1>2. CASE f.at # Start /\ f.at \notin Members(l)
  BY <1>2 DEF Reached, After
<1>3. CASE f.at # Start /\ f.at \in Members(l)
  <2>1. After(l, o, f.at) \in Members(l) \cup {NULL}
    BY <1>3, AfterMember
  <2>2. Members(l) \subseteq Proc
    BY MembersType
  <2> QED
    BY <1>3, <2>1, <2>2 DEF Reached
<1> QED
  BY <1>1, <1>2, <1>3

\* The list agrees with the states as long as no process starts or has left.
LEMMA ListedKept ==
    ASSUME NEW l, NEW s, NEW st, Listed(l, s, st), NEW t, NEW su,
           \A q \in Proc : (su[q] # "NONE" \/ q \in Leaving(t)) <=> (st[q] # "NONE" \/ q \in Leaving(s))
    PROVE  Listed(l, t, su)
BY DEF Listed

\* An activation of a process on the stack means that it is on the list.
LEMMA ActiveListed ==
    ASSUME NEW l, NEW s, NEW st, Listed(l, s, st), Marked(s, st),
           NEW p \in Running(s) \cup Leaving(s)
    PROVE  p \in Members(l) /\ p \in Proc
BY DEF Listed, Marked, Running, Leaving

-----------------------------------------------------------------------------
(* The actions keep StackInv.  First the loops of the kernel.              *)

LEMMA SynchReturnKeeps ==
    ASSUME StackInv, SynchReturn
    PROVE  StackInv'
<1>1. /\ stack # <<>> /\ Top.pc = "synch" /\ process_current' = Top.old /\ stack' = Below
      /\ UNCHANGED <<process_list, oldNext, state, needspoll, events, wanted, due>>
  BY DEF SynchReturn, TopIs
<1>2. /\ KernelType /\ Shape(stack) /\ Marked(stack, state) /\ Listed(process_list, stack, state)
  BY DEF StackInv
<1>3. /\ Shape(Below) /\ Top \in Frames
      /\ Below # <<>> => Calls(Below[Len(Below)], Top)
      /\ Running(stack) = Running(Below) \cup IF IsThread(Top) THEN {Top.p} ELSE {}
      /\ Leaving(stack) = Leaving(Below) \cup IF Exits(Top) THEN {Top.p} ELSE {}
  BY <1>1, <1>2, TopFacts
<1>4. ~IsThread(Top) /\ ~Exits(Top) /\ ~Loops(Top)
  BY <1>1 DEF IsThread, Exits, Loops
<1>5. Running(stack') = Running(stack) /\ Leaving(stack') = Leaving(stack)
  BY <1>1, <1>3, <1>4
<1>6. Shape(stack') /\ Marked(stack', state')
  BY <1>1, <1>2, <1>3, <1>5 DEF Marked
<1>7. Current(stack', process_current')
  BY <1>1, <1>3 DEF Current, Calls
<1>8. Listed(process_list', stack', state')
  BY <1>1, <1>2, <1>5 DEF Listed
<1>9. CursorListed(process_list', oldNext', stack')
  BY <1>1, <1>3, <1>4 DEF CursorListed, Calls
<1>10. KernelType'
  <2>1. Top.old \in Proc \cup {NULL}
    BY <1>3, FrameKinds
  <2> QED
    BY <1>1, <1>2, <2>1 DEF KernelType
<1> QED
  BY <1>6, <1>7, <1>8, <1>9, <1>10 DEF StackInv

LEMMA ExitUnlinkKeeps ==
    ASSUME StackInv, ExitUnlink
    PROVE  StackInv'
<1> DEFINE p == Top.p
           k == Place(process_list, p)
<1>1. /\ KernelType /\ Shape(stack) /\ Marked(stack, state) /\ Listed(process_list, stack, state)
  BY DEF StackInv
<1>2. stack # <<>> /\ Top.pc = "unlink" /\ process_current' = Top.old /\ stack' = Below
  BY DEF ExitUnlink, TopIs
<1>3. /\ Shape(Below) /\ Top \in Frames
      /\ Below # <<>> => Calls(Below[Len(Below)], Top)
      /\ Running(stack) = Running(Below) \cup IF IsThread(Top) THEN {Top.p} ELSE {}
      /\ Leaving(stack) = Leaving(Below) \cup IF Exits(Top) THEN {Top.p} ELSE {}
      /\ Exits(Top) => Top.p \notin Leaving(Below)
  BY <1>1, <1>2, TopFacts
<1>4. ~IsThread(Top) /\ Exits(Top) /\ ~Loops(Top)
  BY <1>2 DEF IsThread, Exits, Loops
<1>5. /\ Running(Below) = Running(stack) /\ Leaving(stack) = Leaving(Below) \cup {p}
      /\ p \notin Leaving(Below) /\ p \in Leaving(stack)
  BY <1>3, <1>4
<1>6. p \in Members(process_list) /\ p \in Proc /\ state[p] = "NONE"
  BY <1>1, <1>5, ActiveListed DEF Marked
<1>7. Once(process_list) /\ k \in 1 .. Len(process_list) /\ process_list[k] = p
  BY <1>1, <1>6, HasIndex DEF Listed
<1>8. /\ oldNext' = [oldNext EXCEPT ![p] = After(process_list, oldNext, p)]
      /\ process_list' = Cut(process_list, k)
      /\ UNCHANGED <<state, needspoll, events, wanted, due>>
  BY <1>6, InModel DEF ExitUnlink, Without, Cut
<1> HIDE DEF p, k
<1>9. /\ Once(process_list') /\ Members(process_list') = Members(process_list) \ {p}
  BY <1>7, <1>8, TakenOut
<1>10. /\ After(process_list, oldNext, p) \in Members(process_list) \cup {NULL}
       /\ After(process_list, oldNext, p) # p
  BY <1>6, <1>7, AfterMember
<1>11. Shape(stack') /\ Marked(stack', state')
  BY <1>1, <1>2, <1>3, <1>5, <1>8 DEF Marked
<1>12. Current(stack', process_current')
  BY <1>2, <1>3 DEF Current, Calls
<1>13. Listed(process_list', stack', state')
  BY <1>1, <1>2, <1>5, <1>6, <1>8, <1>9 DEF Listed
<1>14. oldNext \in [Proc -> Proc \cup {NULL}]
  BY <1>1 DEF KernelType
<1>16. Members(process_list) \subseteq Proc
  BY <1>1, <1>7, MembersType
<1>17. oldNext' \in [Proc -> Proc \cup {NULL}] /\ oldNext'[p] = After(process_list, oldNext, p)
  BY <1>6, <1>8, <1>10, <1>14, <1>16
<1>18. CursorListed(process_list', oldNext', stack')
  <2> SUFFICES ASSUME stack' # <<>>, stack'[Len(stack')].pc = "poll"
               PROVE  Reached(process_list', oldNext', stack'[Len(stack')]) \in Members(process_list') \cup {NULL}
    BY DEF CursorListed
  <2> DEFINE f == stack'[Len(stack')]
  <2>1. f.at = p
    BY <1>2, <1>3 DEF Calls, p
  <2>2. p # Start
    BY <1>6, KernelAssumption
  <2>3. Reached(process_list', oldNext', f) = oldNext'[p]
    BY <1>9, <2>1, <2>2 DEF Reached, After
  <2> QED
    BY <1>9, <1>10, <1>17, <2>3
<1>19. KernelType'
  <2>1. Top.old \in Proc \cup {NULL}
    BY <1>3, FrameKinds
  <2> QED
    BY <1>1, <1>2, <1>8, <1>17, <2>1 DEF KernelType
<1> QED
  BY <1>11, <1>12, <1>13, <1>18, <1>19 DEF StackInv

\* The activation on top goes on, and may call the thread function of q.
LEMMA Advance ==
    ASSUME Shape(stack), stack # <<>>, NEW g, GoesOn(Top, g)
    PROVE  LET t == Append(Below, g)
           IN  /\ Shape(t) /\ t # <<>> /\ t[Len(t)] = g
               /\ Len(t) = Len(stack) /\ \A i \in 1 .. Len(stack) - 1 : t[i] = stack[i]
               /\ Running(t) = Running(stack) /\ Leaving(t) = Leaving(stack)
<1> DEFINE t == Append(Below, g)
<1>1. Retopped(stack, Top, g, t)
  BY TopFacts DEF Retopped
<1> HIDE DEF t
<1>2. /\ Shape(t) /\ t # <<>> /\ t[Len(t)] = g
      /\ Len(t) = Len(stack) /\ \A i \in 1 .. Len(stack) - 1 : t[i] = stack[i]
      /\ Running(t) = Running(stack) /\ Leaving(t) = Leaving(stack)
  BY <1>1, Retop
<1> QED
  BY <1>2 DEF t

LEMMA AdvanceCall ==
    ASSUME StackInv, stack # <<>>, NEW g, GoesOn(Top, g), ~IsUser(g), Loops(g) => g.at # Start,
           NEW q \in Proc, NEW ev \in Event, NEW st \in [Proc -> ProcState], Marked(stack, st),
           \A r \in Proc : st[r] = "NONE" <=> state[r] = "NONE",
           g.pc = "poll" => g.at = q /\ st[q] = "RUNNING",
           call_process(st, q, ev, Append(Below, g)),
           UNCHANGED <<process_list, oldNext, events>>,
           needspoll' \in [Proc -> BOOLEAN], wanted' \subseteq Proc, due' \subseteq Proc
    PROVE  StackInv' /\ (\A r \in Proc : state'[r] = "NONE" <=> state[r] = "NONE")
<1> DEFINE t == Append(Below, g)
<1>1. /\ KernelType /\ Shape(stack) /\ Listed(process_list, stack, state)
      /\ process_current \in Proc \cup {NULL}
  BY DEF StackInv, KernelType
<1>2. /\ Shape(t) /\ t # <<>> /\ t[Len(t)] = g
      /\ Running(t) = Running(stack) /\ Leaving(t) = Leaving(stack)
  BY <1>1, Advance
<1>3. call_process(st, q, ev, t)
  OBVIOUS
<1> HIDE DEF t
<1>4. Marked(t, st)
  BY <1>2 DEF Marked
<1>5. MayEnter(t, q)
  BY <1>2 DEF MayEnter
<1>6. /\ Shape(stack') /\ Marked(stack', state') /\ Current(stack', process_current')
      /\ Leaving(stack') = Leaving(t)
      /\ state' \in [Proc -> ProcState] /\ process_current' \in Proc \cup {NULL}
      /\ \A r \in Proc : state'[r] = "NONE" <=> st[r] = "NONE"
      /\ IF st[q] = "RUNNING" THEN stack' = Append(t, Thread(q, ev)) ELSE stack' = t
  BY <1>1, <1>2, <1>3, <1>4, <1>5, CallProcess
<1>7. Listed(process_list', stack', state')
  BY <1>1, <1>2, <1>6, ListedKept
<1>8. CursorListed(process_list', oldNext', stack')
  <2>1. CASE st[q] = "RUNNING"
    <3>1. t \in Seq(Frames) /\ Thread(q, ev) \in Frames /\ Thread(q, ev).pc = "thread"
      BY <1>2, KernelAssumption DEF Shape, Thread, Frame, Frames
    <3>2. stack'[Len(stack')] = Thread(q, ev)
      BY <1>6, <2>1, <3>1, PushSeq
    <3> QED
      BY <3>1, <3>2 DEF CursorListed
  <2>2. CASE st[q] # "RUNNING"
    BY <1>2, <1>6, <2>2 DEF CursorListed
  <2> QED
    BY <2>1, <2>2
<1>9. KernelType'
  BY <1>1, <1>6 DEF KernelType
<1> QED
  BY <1>6, <1>7, <1>8, <1>9 DEF StackInv

\* The activation on top goes on, without a call.
LEMMA AdvanceOnly ==
    ASSUME StackInv, stack # <<>>, NEW g, GoesOn(Top, g), ~IsUser(g),
           g.pc = "poll" => g.at \in Members(process_list),
           stack' = Append(Below, g),
           UNCHANGED <<process_list, oldNext, state, process_current, events>>,
           needspoll' \in [Proc -> BOOLEAN], wanted' \subseteq Proc, due' \subseteq Proc
    PROVE  StackInv'
<1>1. /\ KernelType /\ Shape(stack) /\ Marked(stack, state) /\ Listed(process_list, stack, state)
  BY DEF StackInv
<1>2. /\ Shape(stack') /\ stack' # <<>> /\ stack'[Len(stack')] = g
      /\ Running(stack') = Running(stack) /\ Leaving(stack') = Leaving(stack)
  BY <1>1, Advance
<1>3. Marked(stack', state')
  BY <1>1, <1>2 DEF Marked
<1>4. Current(stack', process_current')
  BY <1>2 DEF Current
<1>5. Listed(process_list', stack', state')
  BY <1>1, <1>2, ListedKept
<1>6. CursorListed(process_list', oldNext', stack')
  <2> SUFFICES ASSUME g.pc = "poll"
               PROVE  Reached(process_list, oldNext, g) \in Members(process_list) \cup {NULL}
    BY <1>2 DEF CursorListed
  <2>1. g.at # Start
    BY <1>1, MembersType, KernelAssumption DEF Listed
  <2> QED
    BY <1>1, <2>1, AfterMember DEF Reached, Listed
<1>7. KernelType'
  BY <1>1 DEF KernelType
<1> QED
  BY <1>2, <1>3, <1>4, <1>5, <1>6, <1>7 DEF StackInv

\* While do_poll is on top, no thread function and no exit_process is active: only a
\* broadcast may be below.
LEMMA NoThreadUnderPoll ==
    ASSUME NEW s, Shape(s), s # <<>>, Loops(s[Len(s)])
    PROVE  Running(s) = {} /\ Leaving(s) = {}
<1>1. s \in Seq(Frames) /\ Len(s) \in Nat /\ Len(s) # 0 /\ \A i \in 1 .. Len(s) : Fits(s, i)
  BY LenProperties, EmptySeq DEF Shape
<1>2. Len(s) \in 1 .. Len(s) /\ Len(s) <= 2
  BY <1>1 DEF Fits, Loops
<1>3. \A i \in 1 .. Len(s) : Loops(s[i])
  <2>1. CASE Len(s) = 1
    <3>1. \A i \in 1 .. Len(s) : i = Len(s)
      BY <2>1
    <3> QED
      BY <3>1
  <2>2. CASE Len(s) = 2
    <3>1. Calls(s[1], s[2])
      BY <1>1, <2>2 DEF Fits
    <3>2. Loops(s[1]) /\ Loops(s[2])
      BY <2>2, <3>1 DEF Calls, Loops
    <3>3. \A i \in 1 .. Len(s) : i = 1 \/ i = 2
      BY <2>2
    <3> QED
      BY <3>2, <3>3
  <2>3. \A n \in Nat : n # 0 /\ n <= 2 => n = 1 \/ n = 2
    OBVIOUS
  <2> QED
    BY <1>1, <1>2, <2>1, <2>2, <2>3
<1> QED
  BY <1>3 DEF Running, Leaving, Loops, IsThread, Exits

LEMMA ExitNotifyKeeps ==
    ASSUME StackInv, ExitNotify
    PROVE  StackInv'
<1> DEFINE q == Cursor(Top)
           g == [Top EXCEPT !.pc = "unlink"]
           r == [Top EXCEPT !.at = q]
<1>1. /\ KernelType /\ Shape(stack) /\ Marked(stack, state) /\ Listed(process_list, stack, state)
      /\ stack # <<>> /\ Top.pc = "notify"
      /\ UNCHANGED <<process_list, oldNext, needspoll, events, wanted, due>>
  BY DEF StackInv, ExitNotify, TopIs
<1>2. Top \in Frames /\ Formed(Top)
  BY <1>1, TopFacts
<1>3. ~IsUser(Top) /\ Exits(Top) /\ Top.at \in Proc \cup {Start} /\ Top.p \in Proc
  BY <1>1, <1>2, FrameKinds DEF IsUser, Exits, Formed
<1>4. q \in Proc \cup {NULL}
  BY <1>1, <1>3, ReachedType, InModel DEF Listed, KernelType
<1>5. /\ needspoll' \in [Proc -> BOOLEAN] /\ wanted' \subseteq Proc /\ due' \subseteq Proc
      /\ state \in [Proc -> ProcState]
  BY <1>1 DEF KernelType
<1>6. /\ g \in Frames /\ g.pc = "unlink" /\ g.p = Top.p /\ g.old = Top.old
  BY <1>2 DEF Frames
<1>7. q # NULL => r \in Frames /\ r.pc = "notify" /\ r.p = Top.p /\ r.old = Top.old /\ r.at = q
  BY <1>1, <1>2, <1>4 DEF Frames
<1>8. \/ q = NULL /\ Top.p # Top.from /\ process_current' = Top.p /\ UNCHANGED state
         /\ stack' = Append(Append(Below, g), OnExit(Top.p))
      \/ q = NULL /\ Top.p = Top.from /\ stack' = Append(Below, g) /\ UNCHANGED <<process_current, state>>
      \/ q # NULL /\ q = Top.p /\ stack' = Append(Below, r) /\ UNCHANGED <<process_current, state>>
      \/ q # NULL /\ q # Top.p /\ call_process(state, q, "EXITED", Append(Below, r))
  BY DEF ExitNotify
<1> HIDE DEF q, g, r
<1>9. GoesOn(Top, g) /\ ~IsUser(g) /\ Exits(g)
  BY <1>1, <1>3, <1>6 DEF GoesOn, Formed, Loops, IsUser, Exits
<1>10. q # NULL => GoesOn(Top, r) /\ ~IsUser(r)
  BY <1>1, <1>3, <1>7 DEF GoesOn, Formed, Loops, IsUser, Exits
<1>11. CASE q = NULL /\ Top.p # Top.from /\ process_current' = Top.p /\ UNCHANGED state
            /\ stack' = Append(Append(Below, g), OnExit(Top.p))
  <2> DEFINE t == Append(Below, g)
             h == OnExit(Top.p)
  <2>1. /\ Shape(t) /\ t # <<>> /\ t[Len(t)] = g
        /\ Running(t) = Running(stack) /\ Leaving(t) = Leaving(stack)
    BY <1>1, <1>9, Advance
  <2>2. /\ h \in Frames /\ h.pc = "on_exit" /\ h.p = Top.p /\ h.old = NULL
    BY <1>3, KernelAssumption DEF OnExit, Frame, Frames, Event
  <2>3. stack' = Append(t, h)
    BY <1>11
  <2> HIDE DEF t, h
  <2>4. ~IsThread(h) /\ ~Exits(h) /\ ~Loops(h) /\ Formed(h) /\ Calls(g, h)
    BY <1>3, <1>6, <1>9, <2>2 DEF IsThread, Exits, Loops, Formed, Calls, IsUser
  <2>5. Pushed(t, h, stack')
    BY <2>1, <2>2, <2>3, <2>4 DEF Pushed
  <2>6. /\ Shape(stack') /\ stack' # <<>> /\ stack'[Len(stack')] = h
        /\ Running(stack') = Running(t) \cup IF IsThread(h) THEN {h.p} ELSE {}
        /\ Leaving(stack') = Leaving(t) \cup IF Exits(h) THEN {h.p} ELSE {}
    BY <2>1, <2>5, Push
  <2>7. Running(stack') = Running(stack) /\ Leaving(stack') = Leaving(stack)
    BY <2>1, <2>4, <2>6
  <2>8. Marked(stack', state')
    BY <1>1, <1>11, <2>7 DEF Marked
  <2>9. Current(stack', process_current') /\ CursorListed(process_list', oldNext', stack')
    BY <1>11, <2>2, <2>6 DEF Current, CursorListed
  <2>10. Listed(process_list', stack', state')
    BY <1>1, <1>11, <2>7, ListedKept
  <2>11. KernelType'
    BY <1>1, <1>3, <1>11 DEF KernelType
  <2> QED
    BY <2>6, <2>8, <2>9, <2>10, <2>11 DEF StackInv
<1>12. CASE q = NULL /\ Top.p = Top.from /\ stack' = Append(Below, g) /\ UNCHANGED <<process_current, state>>
  <2>1. g.pc # "poll"
    BY <1>6
  <2> QED
    BY <1>1, <1>5, <1>9, <1>12, <2>1, AdvanceOnly
<1>13. CASE q # NULL /\ q = Top.p /\ stack' = Append(Below, r) /\ UNCHANGED <<process_current, state>>
  <2>1. r.pc # "poll"
    BY <1>7, <1>13
  <2> QED
    BY <1>1, <1>5, <1>10, <1>13, <2>1, AdvanceOnly
<1>14. CASE q # NULL /\ q # Top.p /\ call_process(state, q, "EXITED", Append(Below, r))
  <2>1. r.pc # "poll" /\ ~Loops(r) /\ q \in Proc /\ "EXITED" \in Event
    BY <1>4, <1>7, <1>14 DEF Loops, Event
  <2> QED
    BY <1>1, <1>5, <1>10, <1>14, <2>1, AdvanceCall
<1> QED
  BY <1>8, <1>11, <1>12, <1>13, <1>14

LEMMA PollStepKeeps ==
    ASSUME StackInv, PollStep
    PROVE  StackInv'
<1> DEFINE q == Cursor(Top)
           r == [Top EXCEPT !.at = q]
           st == [state EXCEPT ![q] = "RUNNING"]
<1>1. /\ KernelType /\ Shape(stack) /\ Marked(stack, state) /\ Listed(process_list, stack, state)
      /\ stack # <<>> /\ Top.pc = "poll" /\ CursorListed(process_list, oldNext, stack)
      /\ UNCHANGED <<process_list, oldNext, events, due>>
  BY DEF StackInv, PollStep, TopIs
<1>2. /\ Top = stack[Len(stack)] /\ Shape(Below) /\ Top \in Frames /\ Formed(Top)
      /\ Below # <<>> => Calls(Below[Len(Below)], Top)
      /\ Running(stack) = Running(Below) \cup IF IsThread(Top) THEN {Top.p} ELSE {}
      /\ Leaving(stack) = Leaving(Below) \cup IF Exits(Top) THEN {Top.p} ELSE {}
  BY <1>1, TopFacts
<1>3. ~IsUser(Top) /\ ~IsThread(Top) /\ ~Exits(Top) /\ Loops(Top)
  BY <1>1 DEF IsUser, IsThread, Exits, Loops
<1>4. Members(process_list) \subseteq Proc /\ q \in Members(process_list) \cup {NULL}
  BY <1>1, <1>2, MembersType, InModel DEF Listed, CursorListed
<1>5. /\ state \in [Proc -> ProcState] /\ needspoll \in [Proc -> BOOLEAN] /\ wanted \subseteq Proc
      /\ due' \subseteq Proc
  BY <1>1 DEF KernelType
<1>6. q # NULL => r \in Frames /\ r.pc = "poll" /\ r.p = Top.p /\ r.old = Top.old /\ r.at = q
  BY <1>1, <1>2, <1>4 DEF Frames
<1>7. \/ q = NULL /\ stack' = Below /\ UNCHANGED <<state, process_current, needspoll, wanted>>
      \/ /\ q # NULL /\ needspoll[q] /\ needspoll' = [needspoll EXCEPT ![q] = FALSE]
         /\ call_process(st, q, "POLL", Append(Below, r)) /\ wanted' = wanted \ {q}
      \/ /\ q # NULL /\ stack' = Append(Below, r)
         /\ UNCHANGED <<state, process_current, needspoll, wanted>>
  BY DEF PollStep
<1> HIDE DEF q, r, st
<1>8. q # NULL => q \in Proc /\ q # Start /\ GoesOn(Top, r) /\ ~IsUser(r)
  BY <1>1, <1>4, <1>6, KernelAssumption DEF GoesOn, Formed, Loops, IsUser, Exits
<1>9. CASE q = NULL /\ stack' = Below /\ UNCHANGED <<state, process_current, needspoll, wanted>>
  <2>1. Running(stack') = Running(stack) /\ Leaving(stack') = Leaving(stack) /\ Shape(stack')
    BY <1>2, <1>3, <1>9
  <2>2. stack' # <<>> => stack'[Len(stack')].pc = "deliver"
    BY <1>2, <1>3, <1>9 DEF Calls
  <2>3. Marked(stack', state')
    BY <1>1, <1>9, <2>1 DEF Marked
  <2>4. Current(stack', process_current') /\ CursorListed(process_list', oldNext', stack')
    BY <2>2 DEF Current, CursorListed, IsUser
  <2>5. Listed(process_list', stack', state')
    BY <1>1, <1>9, <2>1, ListedKept
  <2>6. KernelType'
    BY <1>1, <1>9 DEF KernelType
  <2> QED
    BY <2>1, <2>3, <2>4, <2>5, <2>6 DEF StackInv
<1>10. CASE q # NULL /\ needspoll[q] /\ needspoll' = [needspoll EXCEPT ![q] = FALSE]
            /\ call_process(st, q, "POLL", Append(Below, r)) /\ wanted' = wanted \ {q}
  <2>1. needspoll' \in [Proc -> BOOLEAN] /\ wanted' \subseteq Proc /\ "POLL" \in Event
    BY <1>5, <1>10 DEF Event
  <2>2. /\ st \in [Proc -> ProcState] /\ st[q] = "RUNNING" /\ \A x \in Proc : x # q => st[x] = state[x]
    BY <1>5, <1>8, <1>10 DEF ProcState, st
  <2>3. q \in Members(process_list) /\ q \in Proc
    BY <1>4, <1>8, <1>10
  <2>5. q \notin Running(stack) /\ q \notin Leaving(stack)
    BY <1>1, <1>2, <1>3, NoThreadUnderPoll
  <2>6. state[q] # "NONE"
    BY <1>1, <2>3, <2>5 DEF Listed
  <2>7. Marked(stack, st)
    BY <1>1, <2>2, <2>3, <2>5 DEF Marked, Leaving
  <2>8. \A x \in Proc : st[x] = "NONE" <=> state[x] = "NONE"
    BY <2>2, <2>6
  <2> QED
    BY <1>1, <1>5, <1>6, <1>8, <1>10, <2>1, <2>2, <2>3, <2>7, <2>8, AdvanceCall
<1>11. CASE q # NULL /\ stack' = Append(Below, r) /\ UNCHANGED <<state, process_current, needspoll, wanted>>
  BY <1>1, <1>4, <1>5, <1>6, <1>8, <1>11, AdvanceOnly
<1> QED
  BY <1>7, <1>9, <1>10, <1>11

\* A loop that starts has the head ahead, or the list is empty.
LEMMA HeadMember ==
    ASSUME NEW l, Once(l), NEW o, NEW f, f.at = Start
    PROVE  Reached(l, o, f) \in Members(l) \cup {NULL}
<1>1. l # <<>> => 1 \in 1 .. Len(l)
  BY EmptySeq, LenProperties DEF Once
<1>2. l # <<>> => l[1] \in Members(l)
  BY <1>1, AtIndex
<1> QED
  BY <1>2 DEF Reached

LEMMA BcastStepKeeps ==
    ASSUME StackInv, BcastStep
    PROVE  StackInv'
<1> DEFINE q == Cursor(Top)
           r == [Top EXCEPT !.at = q]
           d == [r EXCEPT !.pc = "deliver"]
<1>1. /\ KernelType /\ Shape(stack) /\ Marked(stack, state) /\ Listed(process_list, stack, state)
      /\ stack # <<>> /\ Top.pc = "bcast"
      /\ UNCHANGED <<process_list, oldNext, needspoll, events, wanted>>
  BY DEF StackInv, BcastStep, TopIs
<1>2. /\ Shape(Below) /\ Top \in Frames /\ Formed(Top) /\ Below = <<>>
      /\ Running(stack) = Running(Below) \cup IF IsThread(Top) THEN {Top.p} ELSE {}
      /\ Leaving(stack) = Leaving(Below) \cup IF Exits(Top) THEN {Top.p} ELSE {}
  <2>1. stack[Len(stack)] = Top /\ Below = Under(stack)
    BY DEF Top, Below, Under
  <2> QED
    BY <1>1, <2>1, Pop
<1>3. /\ ~IsUser(Top) /\ ~IsThread(Top) /\ ~Exits(Top) /\ Loops(Top)
      /\ Top.at \in Proc \cup {Start} /\ Top.ev \in Event
  BY <1>1, <1>2, FrameKinds DEF IsUser, IsThread, Exits, Loops, Formed
<1>4. q \in Proc \cup {NULL}
  BY <1>1, <1>3, ReachedType, InModel DEF Listed, KernelType
<1>5. /\ state \in [Proc -> ProcState] /\ needspoll' \in [Proc -> BOOLEAN] /\ wanted' \subseteq Proc
      /\ due \subseteq Proc /\ process_current \in Proc \cup {NULL}
  BY <1>1 DEF KernelType
<1>6. q # NULL => /\ r \in Frames /\ r.pc = "bcast" /\ r.p = Top.p /\ r.old = Top.old /\ r.at = q
                  /\ d \in Frames /\ d.pc = "deliver" /\ d.p = Top.p /\ d.old = Top.old /\ d.at = q
  BY <1>1, <1>2, <1>4 DEF Frames
<1>7. \/ q = NULL /\ stack' = Below /\ UNCHANGED <<state, process_current, due>>
      \/ q # NULL /\ stack' = Below \o <<d, PollLoop>> /\ UNCHANGED <<state, process_current, due>>
      \/ q # NULL /\ call_process(state, q, Top.ev, Append(Below, r)) /\ due' = due \ {q}
  BY DEF BcastStep
<1> HIDE DEF q, r, d
<1>8. q # NULL => /\ q \in Proc /\ q # Start
                  /\ GoesOn(Top, r) /\ ~IsUser(r) /\ GoesOn(Top, d) /\ ~IsUser(d)
  BY <1>1, <1>4, <1>6, KernelAssumption DEF GoesOn, Formed, Loops, IsUser, Exits
<1>9. CASE q = NULL /\ stack' = Below /\ UNCHANGED <<state, process_current, due>>
  <2>1. Running(stack') = Running(stack) /\ Leaving(stack') = Leaving(stack) /\ Shape(stack')
    BY <1>2, <1>3, <1>9
  <2>2. stack' = <<>>
    BY <1>2, <1>9
  <2>3. Marked(stack', state')
    BY <1>1, <1>9, <2>1 DEF Marked
  <2>4. Current(stack', process_current') /\ CursorListed(process_list', oldNext', stack')
    BY <2>2 DEF Current, CursorListed
  <2>5. Listed(process_list', stack', state')
    BY <1>1, <1>9, <2>1, ListedKept
  <2>6. KernelType'
    BY <1>1, <1>9 DEF KernelType
  <2> QED
    BY <2>1, <2>3, <2>4, <2>5, <2>6 DEF StackInv
<1>10. CASE q # NULL /\ stack' = Below \o <<d, PollLoop>> /\ UNCHANGED <<state, process_current, due>>
  <2> DEFINE t == Append(Below, d)
  <2>1. /\ Shape(t) /\ t # <<>> /\ t[Len(t)] = d /\ Len(t) = Len(stack)
        /\ Running(t) = Running(stack) /\ Leaving(t) = Leaving(stack)
    BY <1>1, <1>8, <1>10, Advance
  <2>2. /\ PollLoop \in Frames /\ PollLoop.pc = "poll" /\ PollLoop.at = Start
    BY KernelAssumption DEF PollLoop, Frame, Frames, Event
  <2>3. t = <<d>> /\ stack' = Append(t, PollLoop) /\ Len(t) = 1
    BY <1>2, <1>10
  <2> HIDE DEF t
  <2>4. /\ ~IsUser(PollLoop) /\ ~IsThread(PollLoop) /\ ~Exits(PollLoop) /\ Loops(PollLoop)
        /\ Formed(PollLoop)
    BY <2>2, KernelAssumption DEF IsUser, IsThread, Exits, Loops, Formed
  <2>5. Calls(d, PollLoop)
    BY <1>6, <1>8, <1>10, <2>2, <2>4 DEF Calls
  <2>6. Pushed(t, PollLoop, stack')
    BY <2>1, <2>2, <2>3, <2>4, <2>5 DEF Pushed
  <2>7. /\ Shape(stack') /\ stack' # <<>> /\ stack'[Len(stack')] = PollLoop
        /\ Running(stack') = Running(t) \cup IF IsThread(PollLoop) THEN {PollLoop.p} ELSE {}
        /\ Leaving(stack') = Leaving(t) \cup IF Exits(PollLoop) THEN {PollLoop.p} ELSE {}
    BY <2>1, <2>6, Push
  <2>8. Running(stack') = Running(stack) /\ Leaving(stack') = Leaving(stack)
    BY <2>1, <2>4, <2>7
  <2>9. Marked(stack', state') /\ Current(stack', process_current')
    BY <1>1, <1>10, <2>4, <2>7, <2>8 DEF Marked, Current
  <2>10. CursorListed(process_list', oldNext', stack')
    BY <1>1, <2>2, <2>7, HeadMember DEF CursorListed, Listed
  <2>11. Listed(process_list', stack', state')
    BY <1>1, <1>10, <2>8, ListedKept
  <2>12. KernelType'
    BY <1>1, <1>10 DEF KernelType
  <2> QED
    BY <2>7, <2>9, <2>10, <2>11, <2>12 DEF StackInv
<1>11. CASE q # NULL /\ call_process(state, q, Top.ev, Append(Below, r)) /\ due' = due \ {q}
  <2>1. r.pc # "poll" /\ r.at # Start /\ due' \subseteq Proc
    BY <1>5, <1>6, <1>8, <1>11
  <2> QED
    BY <1>1, <1>3, <1>5, <1>8, <1>11, <2>1, AdvanceCall
<1> QED
  BY <1>7, <1>9, <1>10, <1>11

LEMMA BcastDeliverKeeps ==
    ASSUME StackInv, BcastDeliver
    PROVE  StackInv'
<1> DEFINE r == [Top EXCEPT !.pc = "bcast"]
<1>1. /\ KernelType /\ Shape(stack) /\ Marked(stack, state)
      /\ stack # <<>> /\ Top.pc = "deliver"
      /\ UNCHANGED <<process_list, oldNext, needspoll, events, wanted>>
      /\ call_process(state, Top.at, Top.ev, Append(Below, r)) /\ due' = due \ {Top.at}
  BY DEF StackInv, BcastDeliver, TopIs
<1>2. Top \in Frames /\ Formed(Top)
  BY <1>1, TopFacts
<1>3. Top.at \in Proc /\ Top.at # Start /\ Top.ev \in Event
  BY <1>1, <1>2, FrameKinds DEF Loops, Formed
<1>4. r \in Frames /\ r.pc = "bcast" /\ r.p = Top.p /\ r.old = Top.old /\ r.at = Top.at
  BY <1>2 DEF Frames
<1> HIDE DEF r
<1>5. GoesOn(Top, r) /\ ~IsUser(r)
  BY <1>1, <1>3, <1>4, KernelAssumption DEF GoesOn, Formed, Loops, IsUser, Exits
<1>6. /\ state \in [Proc -> ProcState] /\ needspoll' \in [Proc -> BOOLEAN] /\ wanted' \subseteq Proc
      /\ due' \subseteq Proc
  BY <1>1 DEF KernelType
<1>7. r.pc # "poll" /\ r.at # Start
  BY <1>3, <1>4
<1> QED
  BY <1>1, <1>3, <1>5, <1>6, <1>7, AdvanceCall

-----------------------------------------------------------------------------
(* The kernel calls of main() and of thread functions.                     *)

\* The stack of a caller: empty in main(), or with a thread function on top.
Caller(rest) ==
    /\ Shape(rest) /\ Current(rest, process_current)
    /\ rest # <<>> => IsUser(rest[Len(rest)])
    /\ Running(rest) = Running(stack) /\ Leaving(rest) = Leaving(stack)

LEMMA CallerIs ==
    ASSUME StackInv
    PROVE  /\ stack = <<>> => Caller(stack)
           /\ UserOnTop /\ Top.n < MaxCalls =>
                 LET g == [Top EXCEPT !.n = @ + 1]
                 IN  /\ Caller(Calling) /\ Calling # <<>> /\ Calling = Append(Below, g)
                     /\ Calling[Len(stack)] = g /\ g \in Frames /\ g.pc = Top.pc
                     /\ g.p = Top.p /\ g.old = Top.old
<1>1. Shape(stack) /\ Current(stack, process_current)
  BY DEF StackInv
<1>2. stack = <<>> => Caller(stack)
  BY <1>1 DEF Caller
<1>3. ASSUME UserOnTop, Top.n < MaxCalls
      PROVE  LET g == [Top EXCEPT !.n = @ + 1]
             IN  /\ Caller(Calling) /\ Calling # <<>> /\ Calling = Append(Below, g)
                 /\ Calling[Len(stack)] = g /\ g \in Frames /\ g.pc = Top.pc
                 /\ g.p = Top.p /\ g.old = Top.old
  <2> DEFINE g == [Top EXCEPT !.n = @ + 1]
  <2>1. stack # <<>> /\ IsUser(Top) /\ Top = stack[Len(stack)] /\ Top \in Frames /\ Formed(Top)
    BY <1>1, <1>3, TopFacts DEF UserOnTop
  <2>2. Top.n \in 0 .. MaxCalls /\ MaxCalls \in Nat
    BY <2>1, FrameKinds, KernelAssumption
  <2>3. Top.n + 1 \in 0 .. MaxCalls
    BY <1>3, <2>2
  <2>4. g \in Frames /\ g.pc = Top.pc /\ g.p = Top.p /\ g.old = Top.old /\ g.at = Top.at
    BY <2>1, <2>3 DEF Frames
  <2>5. Calling = Append(Below, g)
    BY DEF Calling
  <2> HIDE DEF g
  <2>6. GoesOn(Top, g) /\ IsUser(g)
    BY <2>1, <2>4 DEF GoesOn, Formed, Loops, Exits, IsUser
  <2>7. /\ Shape(Calling) /\ Calling # <<>> /\ Calling[Len(Calling)] = g /\ Len(Calling) = Len(stack)
        /\ Running(Calling) = Running(stack) /\ Leaving(Calling) = Leaving(stack)
    BY <1>1, <2>1, <2>5, <2>6, Advance
  <2>8. Current(Calling, process_current)
    BY <1>1, <2>1, <2>4, <2>7 DEF Current
  <2>9. Caller(Calling)
    BY <2>6, <2>7, <2>8 DEF Caller
  <2> QED
    BY <2>4, <2>5, <2>7, <2>9 DEF g
<1> QED
  BY <1>2, <1>3

\* A kernel call that returns at once.
LEMMA CallReturns ==
    ASSUME StackInv, NEW rest, Caller(rest), stack' = rest,
           UNCHANGED <<process_list, oldNext, state, process_current>>,
           events' \in Seq([ev : UserEvent, p : Proc \cup {NULL}]),
           needspoll' \in [Proc -> BOOLEAN], wanted' \subseteq Proc, due' \subseteq Proc
    PROVE  StackInv'
<1>1. /\ KernelType /\ Marked(stack, state) /\ Listed(process_list, stack, state)
  BY DEF StackInv
<1>2. /\ Shape(stack') /\ Current(stack', process_current') /\ (stack' # <<>> => IsUser(stack'[Len(stack')]))
      /\ Running(stack') = Running(stack) /\ Leaving(stack') = Leaving(stack)
  BY DEF Caller
<1>3. Marked(stack', state')
  BY <1>1, <1>2 DEF Marked
<1>4. Listed(process_list', stack', state')
  BY <1>1, <1>2, ListedKept
<1>5. CursorListed(process_list', oldNext', stack')
  BY <1>2 DEF CursorListed, IsUser
<1>6. KernelType'
  BY <1>1 DEF KernelType
<1> QED
  BY <1>2, <1>3, <1>4, <1>5, <1>6 DEF StackInv

\* process_post_synch saves process_current.
LEMMA PushSynch ==
    ASSUME NEW rest, Caller(rest), process_current \in Proc \cup {NULL}, NEW q
    PROVE  LET u == Append(rest, Synch(process_current))
           IN  /\ Shape(u) /\ u # <<>> /\ ~IsUser(u[Len(u)]) /\ MayEnter(u, q)
               /\ Running(u) = Running(stack) /\ Leaving(u) = Leaving(stack)
<1> DEFINE g == Synch(process_current)
           u == Append(rest, g)
<1>1. g \in Frames /\ g.pc = "synch" /\ g.old = process_current
  BY KernelAssumption DEF Synch, Frame, Frames, Event
<1> HIDE DEF g
<1>2. ~IsThread(g) /\ ~IsUser(g) /\ ~Exits(g) /\ ~Loops(g) /\ Formed(g)
  BY <1>1 DEF IsThread, IsUser, Exits, Loops, Formed
<1>3. rest # <<>> => Calls(rest[Len(rest)], g)
  BY <1>1, <1>2 DEF Caller, Calls, Current, IsUser, Loops
<1>4. Shape(rest) /\ Running(rest) = Running(stack) /\ Leaving(rest) = Leaving(stack)
  BY DEF Caller
<1>5. Pushed(rest, g, u)
  BY <1>1, <1>2, <1>3 DEF Pushed
<1> HIDE DEF u
<1>6. /\ Shape(u) /\ u # <<>> /\ u[Len(u)] = g
      /\ Running(u) = Running(rest) \cup IF IsThread(g) THEN {g.p} ELSE {}
      /\ Leaving(u) = Leaving(rest) \cup IF Exits(g) THEN {g.p} ELSE {}
  BY <1>4, <1>5, Push
<1>7. MayEnter(u, q) /\ ~IsUser(u[Len(u)])
  BY <1>1, <1>2, <1>6 DEF MayEnter
<1>8. Running(u) = Running(stack) /\ Leaving(u) = Leaving(stack)
  BY <1>2, <1>4, <1>6
<1> QED
  BY <1>6, <1>7, <1>8 DEF u, g

\* call_process ends with a thread function on top, or returns to rest.
LEMMA NotPoll ==
    ASSUME NEW l, NEW o, NEW q \in Proc, NEW ev \in Event, NEW rest, Shape(rest),
           NEW t, t = rest \/ t = Append(rest, Thread(q, ev)),
           rest # <<>> => rest[Len(rest)].pc # "poll"
    PROVE  CursorListed(l, o, t)
<1>1. CASE t = rest
  BY <1>1 DEF CursorListed
<1>2. CASE t = Append(rest, Thread(q, ev))
  <2>1. rest \in Seq(Frames) /\ Thread(q, ev) \in Frames /\ Thread(q, ev).pc = "thread"
    BY KernelAssumption DEF Shape, Thread, Frame, Frames
  <2>2. t[Len(t)] = Thread(q, ev)
    BY <1>2, <2>1, PushSeq
  <2> QED
    BY <2>1, <2>2 DEF CursorListed
<1> QED
  BY <1>1, <1>2

LEMMA CallSynchKeeps ==
    ASSUME StackInv, CallSynch
    PROVE  StackInv'
<1>1. /\ KernelType /\ Marked(stack, state) /\ Listed(process_list, stack, state)
      /\ state \in [Proc -> ProcState] /\ process_current \in Proc \cup {NULL}
  BY DEF StackInv, KernelType
<1>2. Caller(Calling)
  BY CallerIs DEF CallSynch, MayNest, MayCall
<1>3. PICK p \in Proc, ev \in UserEvent :
         call_process(state, p, ev, Append(Calling, Synch(process_current)))
  BY DEF CallSynch
<1>4. UNCHANGED <<process_list, oldNext, needspoll, events, wanted, due>>
  BY DEF CallSynch
<1> DEFINE u == Append(Calling, Synch(process_current))
<1>5. /\ Shape(u) /\ u # <<>> /\ ~IsUser(u[Len(u)]) /\ MayEnter(u, p)
      /\ Running(u) = Running(stack) /\ Leaving(u) = Leaving(stack)
  BY <1>1, <1>2, PushSynch
<1>6. u[Len(u)].pc = "synch"
  <2>1. Synch(process_current) \in Frames /\ Synch(process_current).pc = "synch" /\ Calling \in Seq(Frames)
    BY <1>1, <1>2, KernelAssumption DEF Synch, Frame, Frames, Event, Caller, Shape
  <2> QED
    BY <2>1, PushSeq
<1>7. call_process(state, p, ev, u) /\ ev \in Event
  BY <1>3 DEF Event
<1> HIDE DEF u
<1>8. Marked(u, state)
  BY <1>1, <1>5 DEF Marked
<1>9. /\ Shape(stack') /\ Marked(stack', state') /\ Current(stack', process_current')
      /\ Leaving(stack') = Leaving(u)
      /\ state' \in [Proc -> ProcState] /\ process_current' \in Proc \cup {NULL}
      /\ \A r \in Proc : state'[r] = "NONE" <=> state[r] = "NONE"
      /\ IF state[p] = "RUNNING" THEN stack' = Append(u, Thread(p, ev)) ELSE stack' = u
  BY <1>1, <1>5, <1>7, <1>8, CallProcess
<1>10. Listed(process_list', stack', state')
  BY <1>1, <1>4, <1>5, <1>9, ListedKept
<1>11. CursorListed(process_list', oldNext', stack')
  <2>1. stack' = u \/ stack' = Append(u, Thread(p, ev))
    BY <1>9
  <2> QED
    BY <1>5, <1>6, <1>7, <2>1, NotPoll
<1>12. KernelType'
  BY <1>1, <1>4, <1>9 DEF KernelType
<1> QED
  BY <1>9, <1>10, <1>11, <1>12 DEF StackInv

LEMMA StartKeeps ==
    ASSUME StackInv, NEW p \in Proc, NEW rest, Caller(rest), process_start(p, rest)
    PROVE  StackInv'
<1>1. /\ KernelType /\ Marked(stack, state) /\ Listed(process_list, stack, state)
      /\ state \in [Proc -> ProcState] /\ process_current \in Proc \cup {NULL}
      /\ Once(process_list)
  BY DEF StackInv, KernelType, Listed
<1>2. /\ UNCHANGED <<oldNext, needspoll, events, wanted, due>>
      /\ events \in Seq([ev : UserEvent, p : Proc \cup {NULL}])
      /\ needspoll' \in [Proc -> BOOLEAN] /\ wanted' \subseteq Proc /\ due' \subseteq Proc
  BY <1>1 DEF process_start, KernelType
<1>3. CASE p \in OnList
  <2>1. stack' = rest /\ UNCHANGED <<process_list, state, process_current>>
    BY <1>3 DEF process_start
  <2> QED
    BY <1>2, <2>1, CallReturns
<1>4. CASE p \notin OnList
  <2> DEFINE u == Append(rest, Synch(process_current))
             st == [state EXCEPT ![p] = "RUNNING"]
  <2>1. p \notin Members(process_list) /\ process_list' = <<p>> \o process_list
        /\ call_process(st, p, "INIT", u)
    BY <1>4, InModel DEF process_start
  <2>2. /\ Shape(u) /\ u # <<>> /\ ~IsUser(u[Len(u)]) /\ MayEnter(u, p)
        /\ Running(u) = Running(stack) /\ Leaving(u) = Leaving(stack)
    BY <1>1, PushSynch
  <2>3. u[Len(u)].pc = "synch"
    <3>1. Synch(process_current) \in Frames /\ Synch(process_current).pc = "synch" /\ rest \in Seq(Frames)
      BY <1>1, KernelAssumption DEF Synch, Frame, Frames, Event, Caller, Shape
    <3> QED
      BY <3>1, PushSeq
  <2>4. /\ st \in [Proc -> ProcState] /\ st[p] = "RUNNING"
        /\ \A q \in Proc : q # p => st[q] = state[q]
    BY <1>1 DEF ProcState
  <2> HIDE DEF u, st
  <2>5. state[p] = "NONE" /\ p \notin Leaving(stack)
    BY <1>1, <2>1 DEF Listed
  <2>6. Marked(u, st)
    BY <1>1, <2>2, <2>4, <2>5 DEF Marked, Leaving
  <2>7. /\ Shape(stack') /\ Marked(stack', state') /\ Current(stack', process_current')
        /\ Leaving(stack') = Leaving(u)
        /\ state' \in [Proc -> ProcState] /\ process_current' \in Proc \cup {NULL}
        /\ \A r \in Proc : state'[r] = "NONE" <=> st[r] = "NONE"
        /\ IF st[p] = "RUNNING" THEN stack' = Append(u, Thread(p, "INIT")) ELSE stack' = u
    <3>1. "INIT" \in Event
      BY DEF Event
    <3> QED
      BY <1>1, <2>1, <2>2, <2>4, <2>6, <3>1, CallProcess
  <2>8. Once(process_list') /\ Members(process_list') = Members(process_list) \cup {p}
    BY <1>1, <2>1, AtHead
  <2>9. Listed(process_list', stack', state')
    BY <1>1, <2>2, <2>4, <2>7, <2>8 DEF Listed
  <2>10. CursorListed(process_list', oldNext', stack')
    <3>1. "INIT" \in Event /\ (stack' = u \/ stack' = Append(u, Thread(p, "INIT")))
      BY <2>7 DEF Event
    <3> QED
      BY <2>2, <2>3, <3>1, NotPoll
  <2>11. KernelType'
    BY <1>1, <1>2, <2>7 DEF KernelType
  <2> QED
    BY <2>7, <2>9, <2>10, <2>11 DEF StackInv
<1> QED
  BY <1>3, <1>4

LEMMA CallsKeep ==
    ASSUME StackInv, BootStart \/ CallStart \/ CallPost \/ CallPoll
    PROVE  StackInv'
<1>1. /\ KernelType /\ events \in Seq([ev : UserEvent, p : Proc \cup {NULL}])
      /\ needspoll \in [Proc -> BOOLEAN] /\ wanted \subseteq Proc /\ due \subseteq Proc
  BY DEF StackInv, KernelType
<1>2. CASE BootStart
  BY <1>2, CallerIs, StartKeeps DEF BootStart
<1>3. CASE CallStart
  <2>1. Caller(Calling)
    BY <1>3, CallerIs DEF CallStart, MayNest, MayCall
  <2> QED
    BY <1>3, <2>1, StartKeeps DEF CallStart
<1>4. CASE CallPost
  <2>1. Caller(Calling) /\ stack' = Calling
    BY <1>4, CallerIs DEF CallPost, MayCall
  <2>2. PICK p \in Proc \cup {NULL}, ev \in UserEvent : process_post(p, ev)
    BY <1>4 DEF CallPost
  <2>3. events' = events \/ events' = Append(events, [ev |-> ev, p |-> p])
    BY <2>2 DEF process_post
  <2>4. events' \in Seq([ev : UserEvent, p : Proc \cup {NULL}])
    <3> DEFINE E == [ev : UserEvent, p : Proc \cup {NULL}]
               e == [ev |-> ev, p |-> p]
    <3>1. e \in E /\ events \in Seq(E) /\ (events' = events \/ events' = Append(events, e))
      BY <1>1, <2>3
    <3> HIDE DEF E, e
    <3>2. events' \in Seq(E)
      BY <3>1, AppendProperties
    <3> QED
      BY <3>2 DEF E
  <2>5. UNCHANGED <<process_list, oldNext, state, needspoll, process_current, wanted, due>>
    BY <2>2 DEF process_post
  <2> QED
    BY <1>1, <2>1, <2>4, <2>5, CallReturns
<1>5. CASE CallPoll
  <2>1. Caller(Calling) /\ stack' = Calling
    BY <1>5, CallerIs DEF CallPoll, MayCall
  <2>2. PICK p \in Proc : process_poll(p)
    BY <1>5 DEF CallPoll
  <2>3. needspoll' \in [Proc -> BOOLEAN] /\ wanted' \subseteq Proc
    BY <1>1, <2>2 DEF process_poll
  <2>4. UNCHANGED <<process_list, oldNext, state, process_current, events, due>>
    BY <2>2 DEF process_poll
  <2> QED
    BY <1>1, <2>1, <2>3, <2>4, CallReturns
<1> QED
  BY <1>2, <1>3, <1>4, <1>5

\* The exit of a process that is not in the middle of a call.
LEMMA CallExitKeeps ==
    ASSUME StackInv, CallExit, ~torn'
    PROVE  StackInv'
<1>1. /\ KernelType /\ Shape(stack) /\ Marked(stack, state) /\ Listed(process_list, stack, state)
      /\ state \in [Proc -> ProcState] /\ process_current \in Proc \cup {NULL}
      /\ wanted \subseteq Proc /\ due \subseteq Proc
  BY DEF StackInv, KernelType
<1>2. PICK p \in Proc : /\ state[p] # "NONE" /\ ~OnStack(p)
                        /\ exit_process(p, process_current, Calling)
  <2>1. PICK p \in Proc : /\ p = Top.p \/ state[p] # "NONE"
                          /\ ~(OnStack(p) /\ p \in OnList)
                          /\ exit_process(p, process_current, Calling)
    BY DEF CallExit
  <2>2. DOMAIN stack = 1 .. Len(stack) /\ stack # <<>> /\ Len(stack) \in 1 .. Len(stack)
        /\ IsUser(stack[Len(stack)]) /\ Top = stack[Len(stack)]
    BY <1>1, LenProperties, EmptySeq DEF Shape, CallExit, MayNest, MayCall, UserOnTop, Top
  <2>3. CASE p = Top.p
    <3>1. OnStack(p)
      BY <2>2, <2>3 DEF OnStack
    <3>2. p \in Running(stack) \cup Leaving(stack)
      <4>1. CASE IsThread(Top)
        BY <2>2, <2>3, <4>1 DEF Running
      <4>2. CASE Top.pc = "on_exit"
        <5>1. Fits(stack, Len(stack)) /\ Len(stack) # 1
          BY <1>1, <2>2, <4>2 DEF Shape, Fits
        <5>2. Len(stack) > 1 /\ Len(stack) - 1 \in 1 .. Len(stack)
          BY <2>2, <5>1
        <5>3. stack[Len(stack) - 1].pc = "unlink" /\ stack[Len(stack) - 1].p = Top.p
          BY <2>2, <4>2, <5>1, <5>2 DEF Fits, Calls
        <5> QED
          BY <2>3, <5>2, <5>3 DEF Leaving, Exits
      <4> QED
        BY <2>2, <4>1, <4>2 DEF IsUser, IsThread
    <3>3. p \in OnList
      BY <1>1, <3>2, ActiveListed, InModel
    <3> QED
      BY <2>1, <3>1, <3>3
  <2>4. CASE p # Top.p
    <3>1. p \in OnList
      BY <1>1, <2>1, <2>4, InModel DEF Listed
    <3> QED
      BY <2>1, <2>4, <3>1
  <2> QED
    BY <2>3, <2>4
<1>3. UNCHANGED <<process_list, oldNext, needspoll, events>>
  BY DEF CallExit
<1>4. Caller(Calling) /\ Calling # <<>>
  BY CallerIs DEF CallExit, MayNest, MayCall
<1>5. /\ Shape(Calling) /\ Current(Calling, process_current) /\ IsUser(Calling[Len(Calling)])
      /\ Running(Calling) = Running(stack) /\ Leaving(Calling) = Leaving(stack)
  BY <1>4 DEF Caller
<1>6. p \notin Running(stack)
  <2>1. DOMAIN stack = 1 .. Len(stack)
    BY <1>1, LenProperties DEF Shape
  <2> QED
    BY <1>2, <2>1 DEF OnStack, Running, IsThread, IsUser
<1>7. p \notin Leaving(stack) /\ p \in OnList
  BY <1>1, <1>2, InModel DEF Marked, Listed
<1>8. MarkedBut(p, Calling, state)
  BY <1>1, <1>5 DEF Marked, MarkedBut
<1>9. MayEnter(Calling, p)
  BY <1>5 DEF MayEnter, IsUser, Loops
<1>10. /\ Shape(stack') /\ Marked(stack', state') /\ Current(stack', process_current')
       /\ Leaving(stack') = Leaving(Calling) \cup {p}
       /\ state' \in [Proc -> ProcState] /\ process_current' = process_current
       /\ state'[p] = "NONE" /\ \A q \in Proc \ {p} : state'[q] = state[q]
       /\ wanted' = wanted \ {p} /\ due' = due \ {p}
       /\ \E f \in Frames : stack' = Append(Calling, f) /\ f.pc = "notify"
  BY <1>1, <1>2, <1>5, <1>6, <1>7, <1>8, <1>9, ExitProcess
<1>11. Listed(process_list', stack', state')
  <2>1. \A q \in Proc : (state'[q] # "NONE" \/ q \in Leaving(stack'))
                        <=> (state[q] # "NONE" \/ q \in Leaving(stack))
    BY <1>2, <1>5, <1>10
  <2> QED
    BY <1>1, <1>3, <2>1, ListedKept
<1>12. CursorListed(process_list', oldNext', stack')
  <2>1. PICK f \in Frames : stack' = Append(Calling, f) /\ f.pc = "notify"
    BY <1>10
  <2>2. stack'[Len(stack')] = f
    BY <1>5, <2>1, PushSeq DEF Shape
  <2> QED
    BY <2>1, <2>2 DEF CursorListed
<1>13. KernelType'
  BY <1>1, <1>3, <1>10 DEF KernelType
<1> QED
  BY <1>10, <1>11, <1>12, <1>13 DEF StackInv

LEMMA ThreadReturnKeeps ==
    ASSUME StackInv, ThreadReturn
    PROVE  StackInv'
<1> DEFINE p == Top.p
<1>1. /\ KernelType /\ Shape(stack) /\ Marked(stack, state) /\ Listed(process_list, stack, state)
      /\ Once(process_list)
      /\ state \in [Proc -> ProcState] /\ process_current \in Proc \cup {NULL}
      /\ wanted \subseteq Proc /\ due \subseteq Proc
  BY DEF StackInv, KernelType, Listed
<1>2. stack # <<>> /\ IsUser(Top) /\ UNCHANGED <<process_list, oldNext, needspoll, events>>
  BY DEF ThreadReturn, UserOnTop
<1>3. /\ Shape(Below) /\ Top \in Frames /\ Formed(Top)
      /\ Below # <<>> => Calls(Below[Len(Below)], Top)
      /\ Running(stack) = Running(Below) \cup IF IsThread(Top) THEN {Top.p} ELSE {}
      /\ Leaving(stack) = Leaving(Below) \cup IF Exits(Top) THEN {Top.p} ELSE {}
      /\ IsThread(Top) => Top.p \notin Running(Below)
  BY <1>1, <1>2, TopFacts
<1>4. ~Exits(Top) /\ ~Loops(Top) /\ p \in Proc
  BY <1>2, <1>3 DEF IsUser, Exits, Loops, Formed
<1>5. Leaving(stack) = Leaving(Below)
  BY <1>3, <1>4
<1>6. Below # <<>> => ~IsUser(Below[Len(Below)])
  BY <1>2, <1>3, <1>4 DEF Calls, IsUser
<1>7. Current(Below, process_current)
  BY <1>6 DEF Current
<1>8. CASE Top.pc = "thread"
  <2>1. IsThread(Top) /\ Running(stack) = Running(Below) \cup {p} /\ p \notin Running(Below)
    BY <1>3, <1>8 DEF IsThread
  <2>2. state[p] = "CALLED" /\ p \notin Leaving(stack)
    BY <1>1, <1>4, <2>1 DEF Marked
  <2>3. p \in Members(process_list) /\ p # Start
    BY <1>1, <1>4, <2>2, KernelAssumption DEF Listed
  <2>4. CASE state' = [state EXCEPT ![p] = "RUNNING"] /\ stack' = Below /\ UNCHANGED <<process_current, wanted, due>>
    <3>1. /\ state' \in [Proc -> ProcState] /\ state'[p] = "RUNNING"
          /\ \A q \in Proc : q # p => state'[q] = state[q]
      BY <1>1, <1>4, <2>4 DEF ProcState
    <3>2. Marked(stack', state')
      BY <1>1, <1>5, <2>1, <2>2, <2>4, <3>1 DEF Marked, Leaving
    <3>3. Listed(process_list', stack', state')
      <4>1. \A q \in Proc : (state'[q] # "NONE" \/ q \in Leaving(stack'))
                            <=> (state[q] # "NONE" \/ q \in Leaving(stack))
        BY <1>5, <2>2, <2>4, <3>1
      <4> QED
        BY <1>1, <1>2, <4>1, ListedKept
    <3>4. CursorListed(process_list', oldNext', stack')
      <4> SUFFICES ASSUME Below # <<>>, Below[Len(Below)].pc = "poll"
                   PROVE  Reached(process_list, oldNext, Below[Len(Below)]) \in Members(process_list) \cup {NULL}
        BY <1>2, <2>4 DEF CursorListed
      <4>1. Below[Len(Below)].at = p
        BY <1>3 DEF Calls
      <4> QED
        BY <1>1, <2>3, <4>1, AfterMember DEF Reached
    <3>5. KernelType'
      BY <1>1, <1>2, <2>4, <3>1 DEF KernelType
    <3> QED
      BY <1>3, <1>7, <2>4, <3>2, <3>3, <3>4, <3>5 DEF StackInv
  <2>5. CASE exit_process(p, p, Below)
    <3>1. MarkedBut(p, Below, state)
      BY <1>1, <1>5, <2>1 DEF Marked, MarkedBut
    <3>2. MayEnter(Below, p)
      BY <1>3 DEF MayEnter, Calls
    <3>3. p \in OnList /\ p \notin Leaving(Below) /\ p \in Proc \cup {NULL} /\ state[p] # "NONE"
      BY <1>4, <1>5, <2>2, <2>3, InModel
    <3>4. /\ Shape(stack') /\ Marked(stack', state') /\ Current(stack', process_current')
          /\ Leaving(stack') = Leaving(Below) \cup {p}
          /\ state' \in [Proc -> ProcState] /\ process_current' = process_current
          /\ state'[p] = "NONE" /\ \A q \in Proc \ {p} : state'[q] = state[q]
          /\ wanted' = wanted \ {p} /\ due' = due \ {p}
          /\ \E f \in Frames : stack' = Append(Below, f) /\ f.pc = "notify"
      BY <1>1, <1>3, <1>4, <1>7, <2>1, <2>5, <3>1, <3>2, <3>3, ExitProcess
    <3>5. Listed(process_list', stack', state')
      <4>1. \A q \in Proc : (state'[q] # "NONE" \/ q \in Leaving(stack'))
                            <=> (state[q] # "NONE" \/ q \in Leaving(stack))
        BY <1>5, <3>3, <3>4
      <4> QED
        BY <1>1, <1>2, <4>1, ListedKept
    <3>6. CursorListed(process_list', oldNext', stack')
      <4>1. PICK f \in Frames : stack' = Append(Below, f) /\ f.pc = "notify"
        BY <3>4
      <4>2. stack'[Len(stack')] = f
        BY <1>3, <4>1, PushSeq DEF Shape
      <4> QED
        BY <4>1, <4>2 DEF CursorListed
    <3>7. KernelType'
      BY <1>1, <1>2, <3>4 DEF KernelType
    <3> QED
      BY <3>4, <3>5, <3>6, <3>7 DEF StackInv
  <2> QED
    BY <1>8, <2>4, <2>5 DEF ThreadReturn
<1>9. CASE Top.pc = "on_exit"
  <2>1. stack' = Below /\ UNCHANGED <<state, process_current, wanted, due>>
    BY <1>9 DEF ThreadReturn
  <2>2. ~IsThread(Top) /\ (Below # <<>> => Below[Len(Below)].pc = "unlink")
    BY <1>3, <1>9 DEF IsThread, Calls
  <2>3. Running(stack') = Running(stack) /\ Leaving(stack') = Leaving(stack)
    BY <1>3, <1>5, <2>1, <2>2
  <2>4. Marked(stack', state') /\ CursorListed(process_list', oldNext', stack')
    BY <1>1, <2>1, <2>2, <2>3 DEF Marked, CursorListed
  <2>5. Listed(process_list', stack', state')
    BY <1>1, <1>2, <2>1, <2>3, ListedKept
  <2>6. KernelType'
    BY <1>1, <1>2, <2>1 DEF KernelType
  <2> QED
    BY <1>3, <1>7, <2>1, <2>4, <2>5, <2>6 DEF StackInv
<1> QED
  BY <1>2, <1>8, <1>9 DEF IsUser

LEMMA CallContextKeeps ==
    ASSUME StackInv, CallContext
    PROVE  StackInv'
<1>1. /\ KernelType /\ Shape(stack) /\ Marked(stack, state) /\ Listed(process_list, stack, state)
      /\ Current(stack, process_current) /\ process_current \in Proc \cup {NULL}
  BY DEF StackInv, KernelType
<1>2. /\ stack # <<>> /\ IsUser(Top)
      /\ UNCHANGED <<process_list, oldNext, state, needspoll, events, wanted, due>>
  BY DEF CallContext, UserOnTop
<1>3. Top \in Frames /\ Formed(Top) /\ Top = stack[Len(stack)]
  BY <1>1, <1>2, TopFacts
<1>4. Top.p \in Proc /\ Top.old \in {NULL, Top.p} /\ Top.p # NULL
  BY <1>2, <1>3, KernelAssumption DEF Formed
<1>5. ASSUME NEW g \in Frames, g.pc = Top.pc, g.p = Top.p, g.old \in {NULL, Top.p},
             g.old = NULL => process_current' = Top.p, process_current' \in Proc,
             stack' = Append(Below, g)
      PROVE  StackInv'
  <2>1. IsUser(g) /\ GoesOn(Top, g)
    BY <1>2, <1>4, <1>5 DEF GoesOn, Formed, Loops, Exits, IsUser
  <2>2. /\ Shape(stack') /\ stack' # <<>> /\ stack'[Len(stack')] = g
        /\ Running(stack') = Running(stack) /\ Leaving(stack') = Leaving(stack)
    BY <1>1, <1>2, <1>5, <2>1, Advance
  <2>3. Marked(stack', state') /\ Current(stack', process_current')
    BY <1>1, <1>2, <1>5, <2>2 DEF Marked, Current
  <2>4. Listed(process_list', stack', state')
    BY <1>1, <1>2, <2>2, ListedKept
  <2>5. CursorListed(process_list', oldNext', stack')
    BY <2>1, <2>2 DEF CursorListed, IsUser
  <2>6. KernelType'
    BY <1>1, <1>2, <1>5 DEF KernelType
  <2> QED
    BY <2>2, <2>3, <2>4, <2>5, <2>6 DEF StackInv
<1>6. CASE /\ MayCall("context") /\ Top.old = NULL
           /\ process_current' \in Proc
           /\ stack' = Append(Below, [Calling[Len(stack)] EXCEPT !.old = process_current])
  <2> DEFINE c == [Top EXCEPT !.n = @ + 1]
             g == [c EXCEPT !.old = process_current]
  <2>1. Calling[Len(stack)] = c /\ c \in Frames /\ c.pc = Top.pc /\ c.p = Top.p
    BY <1>6, CallerIs DEF MayCall
  <2>2. stack' = Append(Below, g)
    BY <1>6, <2>1
  <2> HIDE DEF c
  <2>3. g \in Frames /\ g.pc = Top.pc /\ g.p = Top.p /\ g.old = process_current
    BY <1>1, <2>1 DEF Frames
  <2>4. process_current = Top.p
    BY <1>1, <1>2, <1>3, <1>6 DEF Current
  <2> HIDE DEF g
  <2> QED
    BY <1>4, <1>5, <1>6, <2>2, <2>3, <2>4
<1>7. CASE Top.old # NULL /\ process_current' = Top.old /\ stack' = Append(Below, [Top EXCEPT !.old = NULL])
  <2> DEFINE g == [Top EXCEPT !.old = NULL]
  <2>1. g \in Frames /\ g.pc = Top.pc /\ g.p = Top.p /\ g.old = NULL
    BY <1>3 DEF Frames
  <2>2. stack' = Append(Below, g) /\ process_current' = Top.p
    BY <1>4, <1>7
  <2> HIDE DEF g
  <2> QED
    BY <1>4, <1>5, <2>1, <2>2
<1> QED
  BY <1>6, <1>7 DEF CallContext

-----------------------------------------------------------------------------
(* main() and interrupts.                                                  *)

LEMMA EmptyStack ==
    /\ Shape(<<>>) /\ Running(<<>>) = {} /\ Leaving(<<>>) = {}
    /\ \A cur : Current(<<>>, cur)
    /\ \A l, o : CursorListed(l, o, <<>>)
<1>1. <<>> \in Seq(Frames) /\ Len(<<>>) = 0 /\ \A i \in 1 .. Len(<<>>) : FALSE
  BY EmptySeq
<1>2. Shape(<<>>) /\ Running(<<>>) = {} /\ Leaving(<<>>) = {}
  BY <1>1 DEF Shape, Running, Leaving
<1> QED
  BY <1>2 DEF Current, CursorListed

\* A loop on the empty stack.
LEMMA PushLoop ==
    ASSUME StackInv, stack = <<>>, NEW f \in Frames, f.pc \in {"poll", "bcast"}, f.at = Start,
           stack' = <<f>>, UNCHANGED <<process_list, oldNext, state, process_current>>, KernelType'
    PROVE  StackInv'
<1>1. /\ Marked(stack, state) /\ Listed(process_list, stack, state) /\ Shape(stack)
      /\ Once(process_list)
  BY DEF StackInv, Listed
<1>2. ~IsUser(f) /\ ~IsThread(f) /\ ~Exits(f) /\ Loops(f) /\ Formed(f)
  BY KernelAssumption DEF IsUser, IsThread, Exits, Loops, Formed
<1>3. stack' = Append(stack, f) /\ Len(stack) = 0
  OBVIOUS
<1>4. Pushed(stack, f, stack')
  BY <1>2, <1>3 DEF Pushed
<1>5. /\ Shape(stack') /\ stack' # <<>> /\ stack'[Len(stack')] = f
      /\ Running(stack') = Running(stack) \cup IF IsThread(f) THEN {f.p} ELSE {}
      /\ Leaving(stack') = Leaving(stack) \cup IF Exits(f) THEN {f.p} ELSE {}
  BY <1>1, <1>4, Push
<1>6. Running(stack') = Running(stack) /\ Leaving(stack') = Leaving(stack)
  BY <1>2, <1>5
<1>7. Marked(stack', state') /\ Current(stack', process_current')
  BY <1>1, <1>2, <1>5, <1>6 DEF Marked, Current
<1>8. Listed(process_list', stack', state')
  BY <1>1, <1>6, ListedKept
<1>9. CursorListed(process_list', oldNext', stack')
  BY <1>1, <1>5, HeadMember DEF CursorListed
<1> QED
  BY <1>5, <1>7, <1>8, <1>9 DEF StackInv

LEMMA RunEventKeeps ==
    ASSUME StackInv, RunEvent
    PROVE  StackInv'
<1> DEFINE E == [ev : UserEvent, p : Proc \cup {NULL}]
           e == Head(events)
<1>1. /\ KernelType /\ Marked(stack, state) /\ Listed(process_list, stack, state) /\ Shape(stack)
      /\ Once(process_list) /\ state \in [Proc -> ProcState] /\ events \in Seq(E)
      /\ process_current \in Proc \cup {NULL}
      /\ stack = <<>> /\ UNCHANGED <<process_list, oldNext, needspoll, wanted>>
  BY DEF StackInv, Listed, RunEvent, KernelType
<1>2. OnList \subseteq Proc
  BY <1>1, MembersType, InModel
<1>3. CASE events = <<>>
  <2>1. UNCHANGED <<state, process_current, stack, events, due>>
    BY <1>3 DEF RunEvent
  <2> QED
    BY <1>1, <2>1 DEF StackInv, KernelType
<1>4. CASE events # <<>>
  <2>1. e \in E /\ Tail(events) \in Seq(E)
    BY <1>1, <1>4, HeadTailProperties
  <2>2. e.ev \in UserEvent /\ e.p \in Proc \cup {NULL} /\ e.ev # "INIT" /\ e.ev \in Event
    BY <2>1, KernelAssumption DEF Event
  <2>3. /\ events' = Tail(events)
        /\ \/ e.p = NULL /\ stack' = <<BcastLoop(e.ev)>> /\ due' = OnList /\ UNCHANGED <<state, process_current>>
           \/ e.p # NULL /\ call_process(state, e.p, e.ev, stack) /\ UNCHANGED due
    BY <1>4, <2>2 DEF RunEvent
  <2> HIDE DEF e
  <2>4. CASE e.p = NULL /\ stack' = <<BcastLoop(e.ev)>> /\ due' = OnList /\ UNCHANGED <<state, process_current>>
    <3>1. BcastLoop(e.ev) \in Frames /\ BcastLoop(e.ev).pc = "bcast" /\ BcastLoop(e.ev).at = Start
      BY <2>2, KernelAssumption DEF BcastLoop, Frame, Frames
    <3>2. KernelType'
      BY <1>1, <1>2, <2>1, <2>3, <2>4 DEF KernelType
    <3> QED
      BY <1>1, <2>4, <3>1, <3>2, PushLoop
  <2>5. CASE e.p # NULL /\ call_process(state, e.p, e.ev, stack) /\ UNCHANGED due
    <3>1. e.p \in Proc /\ MayEnter(stack, e.p)
      BY <1>1, <2>2, <2>5 DEF MayEnter
    <3>2. /\ Shape(stack') /\ Marked(stack', state') /\ Current(stack', process_current')
          /\ Leaving(stack') = Leaving(stack)
          /\ state' \in [Proc -> ProcState] /\ process_current' \in Proc \cup {NULL}
          /\ \A q \in Proc : state'[q] = "NONE" <=> state[q] = "NONE"
          /\ IF state[e.p] = "RUNNING" THEN stack' = Append(stack, Thread(e.p, e.ev)) ELSE stack' = stack
      BY <1>1, <2>2, <2>5, <3>1, CallProcess
    <3>3. Listed(process_list', stack', state')
      BY <1>1, <3>2, ListedKept
    <3>4. CursorListed(process_list', oldNext', stack')
      <4>1. stack' = stack \/ stack' = Append(stack, Thread(e.p, e.ev))
        BY <3>2
      <4> QED
        BY <1>1, <2>2, <3>1, <4>1, NotPoll
    <3>5. KernelType'
      BY <1>1, <2>1, <2>3, <2>5, <3>2 DEF KernelType
    <3> QED
      BY <3>2, <3>3, <3>4, <3>5 DEF StackInv
  <2> QED
    BY <2>3, <2>4, <2>5
<1> QED
  BY <1>3, <1>4

LEMMA MainKeeps ==
    ASSUME StackInv, BootDone \/ RunPoll \/ Interrupt
    PROVE  StackInv'
<1>1. KernelType /\ needspoll \in [Proc -> BOOLEAN] /\ wanted \subseteq Proc
  BY DEF StackInv, KernelType
<1>2. CASE BootDone
  BY <1>2 DEF BootDone, StackInv, KernelType
<1>3. CASE RunPoll
  <2>1. /\ stack = <<>>
        /\ UNCHANGED <<process_list, oldNext, state, needspoll, process_current, events, wanted, due>>
    BY <1>3 DEF RunPoll
  <2>2. stack' = <<PollLoop>> \/ stack' = stack
    BY <1>3 DEF RunPoll
  <2>3. KernelType'
    BY <1>1, <2>1 DEF KernelType
  <2>4. PollLoop \in Frames /\ PollLoop.pc = "poll" /\ PollLoop.at = Start
    BY KernelAssumption DEF PollLoop, Frame, Frames, Event
  <2> QED
    BY <2>1, <2>2, <2>3, <2>4, PushLoop DEF StackInv
<1>4. CASE Interrupt
  <2>1. PICK p \in Proc : process_poll(p)
    BY <1>4, KernelAssumption DEF Interrupt
  <2>2. UNCHANGED <<stack, process_list, oldNext, state, process_current, events, due>>
    BY <1>4, <2>1 DEF Interrupt, process_poll
  <2>3. needspoll' \in [Proc -> BOOLEAN] /\ wanted' \subseteq Proc
    BY <1>1, <2>1 DEF process_poll
  <2>4. KernelType'
    BY <1>1, <2>2, <2>3 DEF KernelType
  <2> QED
    BY <2>2, <2>4 DEF StackInv
<1> QED
  BY <1>2, <1>3, <1>4

LEMMA StackInvInit ==
    ASSUME process_init
    PROVE  StackInv
<1>1. /\ process_list = <<>> /\ stack = <<>> /\ state = [p \in Proc |-> "NONE"]
  BY DEF process_init
<1>2. KernelType
  <2>1. events \in Seq([ev : UserEvent, p : Proc \cup {NULL}])
    BY EmptySeq DEF process_init
  <2> QED
    BY <2>1 DEF process_init, KernelType, ProcState
<1>3. Shape(stack) /\ Marked(stack, state) /\ Current(stack, process_current)
  BY <1>1, EmptyStack DEF Marked
<1>4. Once(process_list) /\ Members(process_list) = {}
  BY <1>1, EmptySeq DEF Once, Members
<1>5. Listed(process_list, stack, state)
  BY <1>1, <1>4, EmptyStack DEF Listed
<1> QED
  BY <1>1, <1>2, <1>3, <1>5, EmptyStack DEF StackInv

LEMMA StackInvNext ==
    ASSUME StackInv, [Next]_vars, ~torn'
    PROVE  StackInv'
<1>1. CASE UNCHANGED vars
  BY <1>1 DEF vars, StackInv, KernelType
<1>2. CASE Next
  BY <1>2, ExitNotifyKeeps, ExitUnlinkKeeps, SynchReturnKeeps, PollStepKeeps, BcastStepKeeps,
     BcastDeliverKeeps, CallSynchKeeps, CallsKeep, CallExitKeeps, CallContextKeeps,
     ThreadReturnKeeps, RunEventKeeps, MainKeeps
     DEF Next, Step
<1> QED
  BY <1>1, <1>2

\* A process that has been ended in the middle of a call stays so.
LEMMA TornStays ==
    ASSUME torn, [Next]_vars
    PROVE  torn'
<1>1. CASE UNCHANGED vars
  BY <1>1 DEF vars
<1>2. CASE ExitNotify \/ ExitUnlink \/ SynchReturn \/ PollStep \/ BcastStep \/ BcastDeliver
  BY <1>2 DEF ExitNotify, ExitUnlink, SynchReturn, PollStep, BcastStep, BcastDeliver
<1>3. CASE BootStart \/ BootDone \/ RunPoll \/ RunEvent \/ Interrupt
  BY <1>3 DEF BootStart, BootDone, RunPoll, RunEvent, Interrupt
<1>4. CASE CallPost \/ CallPoll \/ CallSynch \/ CallStart \/ CallContext \/ ThreadReturn
  BY <1>4 DEF CallPost, CallPoll, CallSynch, CallStart, CallContext, ThreadReturn
<1>5. CASE CallExit
  BY <1>5 DEF CallExit
<1> QED
  BY <1>1, <1>2, <1>3, <1>4, <1>5 DEF Next, Step

LEMMA StackInvInvariant == Spec => [](torn \/ StackInv)
<1>1. ASSUME torn \/ StackInv, [Next]_vars PROVE torn' \/ StackInv'
  BY <1>1, StackInvNext, TornStays
<1> QED
  BY <1>1, StackInvInit, PTL DEF Spec

-----------------------------------------------------------------------------
(* What holds after the exit of a process in the middle of a call, too: the *)
(* order of activations, process_current, and a list without stopped        *)
(* processes.                                                               *)

\* What a thread function calls has saved process_current.
Nests(f, g) ==
    IsUser(f) => (g.pc = "synch" \/ Exits(g)) /\ (f.old = NULL => g.old = f.p)

Stacked(s) ==
    /\ s \in Seq(Frames)
    /\ \A i \in 1 .. Len(s) : Formed(s[i]) /\ (i > 1 => Nests(s[i - 1], s[i]))

\* No process is on the list twice, and none that is stopped, unless it is being exited.
Alive(l, s, st) == Once(l) /\ \A p \in Members(l) : st[p] # "NONE" \/ p \in Leaving(s)

ListInv ==
    /\ KernelType /\ Stacked(stack) /\ Current(stack, process_current)
    /\ Alive(process_list, stack, state)

LEMMA StackedPush ==
    ASSUME NEW s, Stacked(s), NEW f \in Frames, Formed(f), s # <<>> => Nests(s[Len(s)], f)
    PROVE  LET t == Append(s, f)
           IN  /\ Stacked(t) /\ t # <<>> /\ t[Len(t)] = f
               /\ Leaving(t) = Leaving(s) \cup IF Exits(f) THEN {f.p} ELSE {}
<1> DEFINE t == Append(s, f)
<1>1. /\ t \in Seq(Frames) /\ t # <<>> /\ Len(s) \in Nat /\ Len(t) = Len(s) + 1
      /\ t[Len(t)] = f /\ \A i \in 1 .. Len(s) : t[i] = s[i]
  BY PushSeq DEF Stacked
<1>2. Len(s) # 0 <=> s # <<>>
  BY EmptySeq DEF Stacked
<1> HIDE DEF t
<1>3. \A i \in 1 .. Len(t) : i \in 1 .. Len(s) \/ i = Len(s) + 1
  BY <1>1
<1>4. ASSUME NEW i \in 1 .. Len(t) PROVE Formed(t[i]) /\ (i > 1 => Nests(t[i - 1], t[i]))
  <2>1. CASE i \in 1 .. Len(s)
    <3>1. t[i] = s[i] /\ (i > 1 => t[i - 1] = s[i - 1])
      BY <1>1, <2>1
    <3> QED
      BY <2>1, <3>1 DEF Stacked
  <2>2. CASE i = Len(s) + 1
    <3>1. t[i] = f /\ (i > 1 => i - 1 = Len(s) /\ Len(s) # 0 /\ t[i - 1] = s[Len(s)])
      BY <1>1, <2>2
    <3> QED
      BY <1>2, <3>1
  <2> QED
    BY <1>3, <2>1, <2>2
<1>5. Leaving(t) = Leaving(s) \cup IF Exits(f) THEN {f.p} ELSE {}
  <2>1. Exits(f) => f.p \in Proc
    BY DEF Formed
  <2>2. \A p \in Proc : (\E i \in 1 .. Len(t) : Exits(t[i]) /\ t[i].p = p)
                        <=> (\E i \in 1 .. Len(s) : Exits(s[i]) /\ s[i].p = p) \/ (Exits(f) /\ f.p = p)
    <3>1. Len(t) \in 1 .. Len(t) /\ \A i \in 1 .. Len(s) : i \in 1 .. Len(t)
      BY <1>1
    <3> QED
      BY <1>1, <1>3, <3>1
  <2> QED
    BY <2>1, <2>2 DEF Leaving
<1> QED
  BY <1>1, <1>4, <1>5 DEF Stacked, t

LEMMA StackedPop ==
    ASSUME Stacked(stack), stack # <<>>
    PROVE  /\ Stacked(Below) /\ Top \in Frames /\ Formed(Top) /\ Top = stack[Len(stack)]
           /\ Below # <<>> => Nests(Below[Len(Below)], Top)
           /\ Leaving(stack) = Leaving(Below) \cup IF Exits(Top) THEN {Top.p} ELSE {}
<1> DEFINE t == Under(stack)
<1>1. /\ t \in Seq(Frames) /\ Len(t) \in Nat /\ Len(stack) = Len(t) + 1 /\ stack[Len(stack)] \in Frames
      /\ \A i \in 1 .. Len(t) : t[i] = stack[i]
  BY PopSeq DEF Stacked
<1>2. Below = t /\ Top = stack[Len(stack)]
  BY DEF Below, Under, Top
<1>3. Len(t) # 0 <=> t # <<>>
  BY <1>1, EmptySeq
<1> HIDE DEF t
<1>4. ASSUME NEW i \in 1 .. Len(t) PROVE Formed(t[i]) /\ (i > 1 => Nests(t[i - 1], t[i]))
  <2>1. t[i] = stack[i] /\ (i > 1 => t[i - 1] = stack[i - 1]) /\ i \in 1 .. Len(stack)
    BY <1>1
  <2> QED
    BY <2>1 DEF Stacked
<1>5. Formed(stack[Len(stack)]) /\ (t # <<>> => Nests(t[Len(t)], stack[Len(stack)]))
  <2>1. /\ Len(stack) \in 1 .. Len(stack)
        /\ t # <<>> => Len(stack) > 1 /\ Len(stack) - 1 = Len(t) /\ t[Len(t)] = stack[Len(t)]
    BY <1>1, <1>3
  <2> QED
    BY <2>1 DEF Stacked
<1>6. Leaving(stack) = Leaving(t) \cup IF Exits(Top) THEN {Top.p} ELSE {}
  <2>1. Exits(Top) => Top.p \in Proc
    BY <1>2, <1>5 DEF Formed
  <2>2. \A i \in 1 .. Len(stack) : i \in 1 .. Len(t) \/ i = Len(stack)
    BY <1>1
  <2>3. Len(stack) \in 1 .. Len(stack) /\ \A i \in 1 .. Len(t) : i \in 1 .. Len(stack)
    BY <1>1
  <2> QED
    BY <1>1, <1>2, <2>1, <2>2, <2>3 DEF Leaving
<1> QED
  BY <1>1, <1>2, <1>4, <1>5, <1>6 DEF Stacked

\* The activation on top goes on.
LEMMA StackedGoesOn ==
    ASSUME Stacked(stack), stack # <<>>, NEW g, GoesOn(Top, g)
    PROVE  LET t == Append(Below, g)
           IN  Stacked(t) /\ t # <<>> /\ t[Len(t)] = g /\ Leaving(t) = Leaving(stack)
<1>1. /\ Stacked(Below) /\ Formed(Top) /\ (Below # <<>> => Nests(Below[Len(Below)], Top))
      /\ Leaving(stack) = Leaving(Below) \cup IF Exits(Top) THEN {Top.p} ELSE {}
  BY StackedPop
<1>2. g \in Frames /\ Formed(g) /\ g.p = Top.p
  BY DEF GoesOn
<1>3. (Exits(Top) <=> Exits(g)) /\ (IsUser(Top) <=> IsUser(g)) /\ (Top.pc = "synch" <=> g.pc = "synch")
  BY DEF GoesOn, Exits, IsUser
<1>4. Below # <<>> => Nests(Below[Len(Below)], g)
  <2>1. IsUser(Top) => ~(Top.pc = "synch" \/ Exits(Top))
    BY DEF IsUser, Exits
  <2>2. ~IsUser(Top) => g.old = Top.old
    BY DEF GoesOn
  <2> QED
    BY <1>1, <1>3, <2>1, <2>2 DEF Nests
<1> QED
  BY <1>1, <1>2, <1>3, <1>4, StackedPush

LEMMA StackedCall ==
    ASSUME NEW st \in [Proc -> ProcState], NEW p \in Proc, NEW ev \in Event, NEW rest, Stacked(rest),
           rest # <<>> => ~IsUser(rest[Len(rest)]), process_current \in Proc \cup {NULL},
           call_process(st, p, ev, rest)
    PROVE  /\ Stacked(stack') /\ Current(stack', process_current') /\ Leaving(stack') = Leaving(rest)
           /\ state' \in [Proc -> ProcState] /\ process_current' \in Proc \cup {NULL}
           /\ \A q \in Proc : state'[q] = "NONE" <=> st[q] = "NONE"
<1>1. CASE st[p] = "RUNNING"
  <2> DEFINE g == Thread(p, ev)
  <2>1. /\ process_current' = p /\ state' = [st EXCEPT ![p] = "CALLED"] /\ stack' = Append(rest, g)
    BY <1>1 DEF call_process
  <2>2. /\ g \in Frames /\ g.pc = "thread" /\ g.p = p /\ g.old = NULL
    BY KernelAssumption DEF Thread, Frame, Frames
  <2> HIDE DEF g
  <2>3. ~Exits(g) /\ Formed(g)
    BY <2>2 DEF IsUser, Exits, Loops, Formed
  <2>4. rest # <<>> => Nests(rest[Len(rest)], g)
    BY DEF Nests
  <2>5. Stacked(stack') /\ stack'[Len(stack')] = g /\ Leaving(stack') = Leaving(rest)
    BY <2>1, <2>2, <2>3, <2>4, StackedPush
  <2>6. /\ state' \in [Proc -> ProcState] /\ \A q \in Proc : state'[q] = "NONE" <=> st[q] = "NONE"
    BY <1>1, <2>1 DEF ProcState
  <2> QED
    BY <2>1, <2>2, <2>5, <2>6 DEF Current
<1>2. CASE st[p] # "RUNNING"
  BY <1>2 DEF call_process, Current
<1> QED
  BY <1>1, <1>2

LEMMA StackedExit ==
    ASSUME ListInv, NEW p \in Proc, NEW from \in Proc \cup {NULL}, NEW rest, Stacked(rest),
           Current(rest, process_current), Leaving(rest) = Leaving(stack),
           exit_process(p, from, rest), UNCHANGED <<process_list, oldNext, needspoll, events>>
    PROVE  ListInv'
<1>1. /\ KernelType /\ state \in [Proc -> ProcState] /\ process_current \in Proc \cup {NULL}
      /\ wanted \subseteq Proc /\ due \subseteq Proc /\ Alive(process_list, stack, state)
  BY DEF ListInv, KernelType
<1>2. CASE p \notin OnList
  <2>1. stack' = rest /\ UNCHANGED <<state, wanted, due, process_current>>
    BY <1>2 DEF exit_process
  <2> QED
    BY <1>1, <2>1 DEF ListInv, KernelType, Alive
<1>3. CASE p \in OnList
  <2> DEFINE pc == IF state[p] = "NONE" THEN "unlink" ELSE "notify"
             g == Frame(pc, p, "EXIT", Start, process_current, from)
  <2>1. /\ process_current' = process_current /\ state' = [state EXCEPT ![p] = "NONE"]
        /\ stack' = Append(rest, g) /\ wanted' = wanted \ {p} /\ due' = due \ {p}
    BY <1>3 DEF exit_process
  <2>2. /\ g \in Frames /\ g.pc = pc /\ g.p = p /\ g.old = process_current /\ g.at = Start
    BY <1>1, KernelAssumption DEF Frame, Frames, Event
  <2>3. pc \in {"notify", "unlink"}
    OBVIOUS
  <2> HIDE DEF g, pc
  <2>4. Exits(g) /\ ~IsUser(g) /\ Formed(g)
    BY <2>2, <2>3, KernelAssumption DEF IsUser, Exits, Loops, Formed
  <2>5. rest # <<>> => Nests(rest[Len(rest)], g)
    BY <2>2, <2>4 DEF Nests, Current
  <2>6. Stacked(stack') /\ stack'[Len(stack')] = g /\ Leaving(stack') = Leaving(rest) \cup {p}
    BY <2>1, <2>2, <2>4, <2>5, StackedPush
  <2>7. /\ state' \in [Proc -> ProcState] /\ \A q \in Proc : q # p => state'[q] = state[q]
    BY <1>1, <2>1 DEF ProcState
  <2>8. Alive(process_list', stack', state')
    <3>1. Members(process_list) \subseteq Proc
      BY <1>1, MembersType DEF Alive
    <3> QED
      BY <1>1, <2>6, <2>7, <3>1 DEF Alive
  <2>9. KernelType'
    BY <1>1, <2>1, <2>7 DEF KernelType
  <2> QED
    BY <2>4, <2>6, <2>8, <2>9 DEF ListInv, Current
<1> QED
  BY <1>2, <1>3

\* A step that leaves the list alone, stops no process and ends no exit_process.
LEMMA ListKept ==
    ASSUME ListInv, UNCHANGED process_list, KernelType', Stacked(stack'), Current(stack', process_current'),
           Leaving(stack) \subseteq Leaving(stack'),
           \A r \in Proc : state'[r] = "NONE" => state[r] = "NONE"
    PROVE  ListInv'
<1>1. Alive(process_list, stack, state) /\ Members(process_list) \subseteq Proc
  BY MembersType DEF ListInv, Alive
<1>2. Alive(process_list', stack', state')
  BY <1>1 DEF Alive
<1> QED
  BY <1>2 DEF ListInv

\* The activation on top goes on, and may call the thread function of q.
LEMMA ListAdvance ==
    ASSUME ListInv, stack # <<>>, NEW g, GoesOn(Top, g), ~IsUser(g),
           UNCHANGED <<process_list, oldNext, events>>,
           needspoll' \in [Proc -> BOOLEAN], wanted' \subseteq Proc, due' \subseteq Proc,
           \/ stack' = Append(Below, g) /\ UNCHANGED <<state, process_current>>
           \/ \E st \in [Proc -> ProcState], q \in Proc, ev \in Event :
                 /\ \A r \in Proc : st[r] = "NONE" => state[r] = "NONE"
                 /\ call_process(st, q, ev, Append(Below, g))
    PROVE  ListInv'
<1> DEFINE t == Append(Below, g)
<1>1. KernelType /\ Stacked(stack) /\ process_current \in Proc \cup {NULL}
  BY DEF ListInv, KernelType
<1>2. Stacked(t) /\ t # <<>> /\ t[Len(t)] = g /\ Leaving(t) = Leaving(stack)
  BY <1>1, StackedGoesOn
<1>3. CASE stack' = t /\ UNCHANGED <<state, process_current>>
  <2> HIDE DEF t
  <2>1. KernelType' /\ Current(stack', process_current')
    BY <1>1, <1>2, <1>3 DEF KernelType, Current
  <2> QED
    BY <1>2, <1>3, <2>1, ListKept
<1>4. ASSUME NEW st \in [Proc -> ProcState], NEW q \in Proc, NEW ev \in Event,
             \A r \in Proc : st[r] = "NONE" => state[r] = "NONE", call_process(st, q, ev, t)
      PROVE  ListInv'
  <2> HIDE DEF t
  <2>1. /\ Stacked(stack') /\ Current(stack', process_current') /\ Leaving(stack') = Leaving(t)
        /\ state' \in [Proc -> ProcState] /\ process_current' \in Proc \cup {NULL}
        /\ \A r \in Proc : state'[r] = "NONE" <=> st[r] = "NONE"
    BY <1>1, <1>2, <1>4, StackedCall
  <2>2. KernelType'
    BY <1>1, <2>1 DEF KernelType
  <2> QED
    BY <1>2, <1>4, <2>1, <2>2, ListKept
<1> QED
  BY <1>3, <1>4

\* A loop ends: the activation below is not that of a thread function.
LEMMA ListPopped ==
    ASSUME ListInv, stack # <<>>, ~Exits(Top), Top.pc # "synch", stack' = Below, UNCHANGED process_list,
           \A r \in Proc : state'[r] = "NONE" => state[r] = "NONE", KernelType'
    PROVE  ListInv'
<1>1. /\ Stacked(Below) /\ (Below # <<>> => Nests(Below[Len(Below)], Top))
      /\ Leaving(stack) = Leaving(Below)
  BY StackedPop DEF ListInv
<1>2. Current(stack', process_current')
  BY <1>1 DEF Current, Nests
<1> QED
  BY <1>1, <1>2, ListKept

LEMMA SynchReturnLists ==
    ASSUME ListInv, SynchReturn
    PROVE  ListInv'
<1>1. /\ KernelType /\ stack # <<>> /\ Top.pc = "synch" /\ process_current' = Top.old /\ stack' = Below
      /\ UNCHANGED <<process_list, oldNext, state, needspoll, events, wanted, due>>
  BY DEF ListInv, SynchReturn, TopIs
<1>2. /\ Stacked(Below) /\ Top \in Frames /\ (Below # <<>> => Nests(Below[Len(Below)], Top))
      /\ Leaving(stack) = Leaving(Below)
  BY <1>1, StackedPop DEF ListInv, Exits
<1>3. Current(stack', process_current')
  BY <1>1, <1>2 DEF Current, Nests
<1>4. KernelType'
  BY <1>1, <1>2, FrameKinds DEF KernelType
<1> QED
  BY <1>1, <1>2, <1>3, <1>4, ListKept

LEMMA ExitUnlinkLists ==
    ASSUME ListInv, ExitUnlink
    PROVE  ListInv'
<1> DEFINE p == Top.p
           k == Place(process_list, p)
<1>1. /\ KernelType /\ stack # <<>> /\ Top.pc = "unlink" /\ process_current' = Top.old /\ stack' = Below
      /\ Alive(process_list, stack, state) /\ Once(process_list)
      /\ UNCHANGED <<state, needspoll, events, wanted, due>>
  BY DEF ListInv, ExitUnlink, TopIs, Alive
<1>2. /\ Stacked(Below) /\ Top \in Frames /\ Formed(Top) /\ Exits(Top)
      /\ Below # <<>> => Nests(Below[Len(Below)], Top)
      /\ Leaving(stack) = Leaving(Below) \cup {p} /\ p \in Proc
  BY <1>1, StackedPop DEF ListInv, Exits, Formed
<1>3. Current(stack', process_current')
  BY <1>1, <1>2 DEF Current, Nests
<1>4. Members(process_list) \subseteq Proc
  BY <1>1, MembersType
<1>5. /\ Once(process_list') /\ Members(process_list') = Members(process_list) \ {p}
      /\ oldNext' \in [Proc -> Proc \cup {NULL}]
  <2>1. CASE p \in Members(process_list)
    <3>1. /\ oldNext' = [oldNext EXCEPT ![p] = After(process_list, oldNext, p)]
          /\ process_list' = Cut(process_list, k)
      BY <2>1, InModel DEF ExitUnlink, Without, Cut
    <3>2. k \in 1 .. Len(process_list) /\ process_list[k] = p
      BY <1>1, <2>1, HasIndex
    <3>3. After(process_list, oldNext, p) \in Members(process_list) \cup {NULL}
      BY <1>1, <2>1, AfterMember
    <3> HIDE DEF p, k
    <3>4. Once(process_list') /\ Members(process_list') = Members(process_list) \ {p}
      BY <1>1, <3>1, <3>2, TakenOut
    <3>5. oldNext' \in [Proc -> Proc \cup {NULL}]
      BY <1>1, <1>2, <1>4, <3>1, <3>3 DEF KernelType
    <3> QED
      BY <3>4, <3>5
  <2>2. CASE p \notin Members(process_list)
    <3>1. UNCHANGED <<oldNext, process_list>>
      BY <2>2, InModel DEF ExitUnlink
    <3> QED
      BY <1>1, <2>2, <3>1 DEF KernelType
  <2> QED
    BY <2>1, <2>2
<1>6. Alive(process_list', stack', state')
  BY <1>1, <1>2, <1>5 DEF Alive
<1>7. KernelType'
  BY <1>1, <1>2, <1>5, FrameKinds DEF KernelType
<1> QED
  BY <1>1, <1>2, <1>3, <1>6, <1>7 DEF ListInv

LEMMA ExitNotifyLists ==
    ASSUME ListInv, ExitNotify
    PROVE  ListInv'
<1> DEFINE q == Cursor(Top)
           g == [Top EXCEPT !.pc = "unlink"]
           r == [Top EXCEPT !.at = q]
<1>1. /\ KernelType /\ Stacked(stack) /\ Once(process_list)
      /\ stack # <<>> /\ Top.pc = "notify"
      /\ UNCHANGED <<process_list, oldNext, needspoll, events, wanted, due>>
  BY DEF ListInv, Alive, ExitNotify, TopIs
<1>2. Top \in Frames /\ Formed(Top)
  BY <1>1, StackedPop
<1>3. ~IsUser(Top) /\ Exits(Top) /\ Top.at \in Proc \cup {Start} /\ Top.p \in Proc
  BY <1>1, <1>2, FrameKinds DEF IsUser, Exits, Formed
<1>4. q \in Proc \cup {NULL}
  BY <1>1, <1>3, ReachedType, InModel DEF KernelType
<1>5. /\ needspoll' \in [Proc -> BOOLEAN] /\ wanted' \subseteq Proc /\ due' \subseteq Proc
      /\ state \in [Proc -> ProcState]
  BY <1>1 DEF KernelType
<1>6. /\ g \in Frames /\ g.pc = "unlink" /\ g.p = Top.p /\ g.old = Top.old
  BY <1>2 DEF Frames
<1>7. q # NULL => r \in Frames /\ r.pc = "notify" /\ r.p = Top.p /\ r.old = Top.old /\ r.at = q
  BY <1>1, <1>2, <1>4 DEF Frames
<1>8. \/ q = NULL /\ process_current' = Top.p /\ UNCHANGED state
         /\ stack' = Append(Append(Below, g), OnExit(Top.p))
      \/ q = NULL /\ stack' = Append(Below, g) /\ UNCHANGED <<process_current, state>>
      \/ q # NULL /\ stack' = Append(Below, r) /\ UNCHANGED <<process_current, state>>
      \/ q # NULL /\ call_process(state, q, "EXITED", Append(Below, r))
  BY DEF ExitNotify
<1> HIDE DEF q, g, r
<1>9. GoesOn(Top, g) /\ ~IsUser(g) /\ Exits(g)
  BY <1>1, <1>3, <1>6 DEF GoesOn, Formed, Loops, IsUser, Exits
<1>10. q # NULL => GoesOn(Top, r) /\ ~IsUser(r)
  BY <1>1, <1>3, <1>7 DEF GoesOn, Formed, Loops, IsUser, Exits
<1>11. CASE process_current' = Top.p /\ UNCHANGED state
            /\ stack' = Append(Append(Below, g), OnExit(Top.p))
  <2> DEFINE t == Append(Below, g)
             h == OnExit(Top.p)
  <2>1. Stacked(t) /\ t # <<>> /\ t[Len(t)] = g /\ Leaving(t) = Leaving(stack)
    BY <1>1, <1>9, StackedGoesOn
  <2>2. /\ h \in Frames /\ h.pc = "on_exit" /\ h.p = Top.p /\ h.old = NULL
    BY <1>3, KernelAssumption DEF OnExit, Frame, Frames, Event
  <2>3. stack' = Append(t, h)
    BY <1>11
  <2> HIDE DEF t, h
  <2>4. ~Exits(h) /\ Formed(h) /\ Nests(g, h)
    BY <1>3, <1>9, <2>2 DEF Exits, Loops, Formed, Nests, IsUser
  <2>5. Stacked(stack') /\ stack'[Len(stack')] = h /\ Leaving(stack') = Leaving(stack)
    BY <2>1, <2>2, <2>3, <2>4, StackedPush
  <2>6. Current(stack', process_current') /\ KernelType'
    BY <1>1, <1>3, <1>11, <2>2, <2>5 DEF Current, KernelType
  <2> QED
    BY <1>1, <1>11, <2>5, <2>6, ListKept
<1>12. CASE stack' = Append(Below, g) /\ UNCHANGED <<process_current, state>>
  BY <1>1, <1>5, <1>9, <1>12, ListAdvance
<1>13. CASE q # NULL /\ stack' = Append(Below, r) /\ UNCHANGED <<process_current, state>>
  BY <1>1, <1>5, <1>10, <1>13, ListAdvance
<1>14. CASE q # NULL /\ call_process(state, q, "EXITED", Append(Below, r))
  <2>1. q \in Proc /\ "EXITED" \in Event
    BY <1>4, <1>14 DEF Event
  <2> QED
    BY <1>1, <1>5, <1>10, <1>14, <2>1, ListAdvance
<1> QED
  BY <1>8, <1>11, <1>12, <1>13, <1>14

LEMMA PollStepLists ==
    ASSUME ListInv, PollStep
    PROVE  ListInv'
<1> DEFINE q == Cursor(Top)
           r == [Top EXCEPT !.at = q]
           st == [state EXCEPT ![q] = "RUNNING"]
<1>1. /\ KernelType /\ Stacked(stack) /\ Once(process_list)
      /\ stack # <<>> /\ Top.pc = "poll"
      /\ UNCHANGED <<process_list, oldNext, events, due>>
  BY DEF ListInv, Alive, PollStep, TopIs
<1>2. Top \in Frames /\ Formed(Top)
  BY <1>1, StackedPop
<1>3. ~IsUser(Top) /\ ~Exits(Top) /\ Loops(Top) /\ Top.at \in Proc \cup {Start}
  BY <1>1, <1>2, FrameKinds DEF IsUser, Exits, Loops, Formed
<1>4. q \in Proc \cup {NULL}
  BY <1>1, <1>3, ReachedType, InModel DEF KernelType
<1>5. /\ state \in [Proc -> ProcState] /\ needspoll \in [Proc -> BOOLEAN] /\ wanted \subseteq Proc
      /\ due' \subseteq Proc
  BY <1>1 DEF KernelType
<1>6. q # NULL => r \in Frames /\ r.pc = "poll" /\ r.p = Top.p /\ r.old = Top.old /\ r.at = q
  BY <1>1, <1>2, <1>4 DEF Frames
<1>7. \/ q = NULL /\ stack' = Below /\ UNCHANGED <<state, process_current, needspoll, wanted>>
      \/ /\ q # NULL /\ needspoll' = [needspoll EXCEPT ![q] = FALSE]
         /\ call_process(st, q, "POLL", Append(Below, r)) /\ wanted' = wanted \ {q}
      \/ /\ q # NULL /\ stack' = Append(Below, r)
         /\ UNCHANGED <<state, process_current, needspoll, wanted>>
  BY DEF PollStep
<1> HIDE DEF q, r
<1>8. q # NULL => q \in Proc /\ GoesOn(Top, r) /\ ~IsUser(r)
  BY <1>1, <1>4, <1>6, KernelAssumption DEF GoesOn, Formed, Loops, IsUser, Exits
<1>9. CASE q = NULL /\ stack' = Below /\ UNCHANGED <<state, process_current, needspoll, wanted>>
  <2>1. KernelType'
    BY <1>1, <1>9 DEF KernelType
  <2> QED
    BY <1>1, <1>3, <1>9, <2>1, ListPopped
<1>10. CASE q # NULL /\ needspoll' = [needspoll EXCEPT ![q] = FALSE]
            /\ call_process(st, q, "POLL", Append(Below, r)) /\ wanted' = wanted \ {q}
  <2>1. needspoll' \in [Proc -> BOOLEAN] /\ wanted' \subseteq Proc /\ "POLL" \in Event
    BY <1>5, <1>10 DEF Event
  <2>2. st \in [Proc -> ProcState] /\ \A x \in Proc : st[x] = "NONE" => state[x] = "NONE"
    BY <1>5, <1>8, <1>10 DEF ProcState
  <2> HIDE DEF st
  <2> QED
    BY <1>1, <1>5, <1>8, <1>10, <2>1, <2>2, ListAdvance
<1>11. CASE q # NULL /\ stack' = Append(Below, r) /\ UNCHANGED <<state, process_current, needspoll, wanted>>
  BY <1>1, <1>5, <1>8, <1>11, ListAdvance
<1> QED
  BY <1>7, <1>9, <1>10, <1>11

LEMMA BcastStepLists ==
    ASSUME ListInv, BcastStep
    PROVE  ListInv'
<1> DEFINE q == Cursor(Top)
           r == [Top EXCEPT !.at = q]
           d == [r EXCEPT !.pc = "deliver"]
<1>1. /\ KernelType /\ Stacked(stack) /\ Once(process_list)
      /\ stack # <<>> /\ Top.pc = "bcast"
      /\ UNCHANGED <<process_list, oldNext, needspoll, events, wanted>>
  BY DEF ListInv, Alive, BcastStep, TopIs
<1>2. Stacked(Below) /\ Top \in Frames /\ Formed(Top)
  BY <1>1, StackedPop
<1>3. /\ ~IsUser(Top) /\ ~Exits(Top) /\ Loops(Top)
      /\ Top.at \in Proc \cup {Start} /\ Top.ev \in Event
  BY <1>1, <1>2, FrameKinds DEF IsUser, Exits, Loops, Formed
<1>4. q \in Proc \cup {NULL}
  BY <1>1, <1>3, ReachedType, InModel DEF KernelType
<1>5. /\ state \in [Proc -> ProcState] /\ needspoll' \in [Proc -> BOOLEAN] /\ wanted' \subseteq Proc
      /\ due \subseteq Proc
  BY <1>1 DEF KernelType
<1>6. q # NULL => /\ r \in Frames /\ r.pc = "bcast" /\ r.p = Top.p /\ r.old = Top.old /\ r.at = q
                  /\ d \in Frames /\ d.pc = "deliver" /\ d.p = Top.p /\ d.old = Top.old /\ d.at = q
  BY <1>1, <1>2, <1>4 DEF Frames
<1>7. \/ q = NULL /\ stack' = Below /\ UNCHANGED <<state, process_current, due>>
      \/ q # NULL /\ stack' = Below \o <<d, PollLoop>> /\ UNCHANGED <<state, process_current, due>>
      \/ q # NULL /\ call_process(state, q, Top.ev, Append(Below, r)) /\ due' = due \ {q}
  BY DEF BcastStep
<1> HIDE DEF q, r, d
<1>8. q # NULL => q \in Proc /\ GoesOn(Top, r) /\ ~IsUser(r) /\ GoesOn(Top, d) /\ ~IsUser(d)
  BY <1>1, <1>4, <1>6, KernelAssumption DEF GoesOn, Formed, Loops, IsUser, Exits
<1>9. CASE q = NULL /\ stack' = Below /\ UNCHANGED <<state, process_current, due>>
  <2>1. KernelType'
    BY <1>1, <1>9 DEF KernelType
  <2> QED
    BY <1>1, <1>3, <1>9, <2>1, ListPopped
<1>10. CASE q # NULL /\ stack' = Below \o <<d, PollLoop>> /\ UNCHANGED <<state, process_current, due>>
  <2> DEFINE t == Append(Below, d)
  <2>1. Stacked(t) /\ t # <<>> /\ t[Len(t)] = d /\ Leaving(t) = Leaving(stack)
    BY <1>1, <1>8, <1>10, StackedGoesOn
  <2>2. /\ PollLoop \in Frames /\ PollLoop.pc = "poll" /\ PollLoop.at = Start
    BY KernelAssumption DEF PollLoop, Frame, Frames, Event
  <2>3. stack' = Append(t, PollLoop)
    BY <1>2, <1>6, <1>10, <2>2 DEF Stacked
  <2> HIDE DEF t
  <2>4. ~IsUser(PollLoop) /\ ~Exits(PollLoop) /\ Formed(PollLoop) /\ Nests(d, PollLoop)
    BY <1>8, <1>10, <2>2, KernelAssumption DEF IsUser, Exits, Loops, Formed, Nests
  <2>5. Stacked(stack') /\ stack'[Len(stack')] = PollLoop /\ Leaving(stack') = Leaving(stack)
    BY <2>1, <2>2, <2>3, <2>4, StackedPush
  <2>6. Current(stack', process_current') /\ KernelType'
    BY <1>1, <1>10, <2>4, <2>5 DEF Current, KernelType
  <2> QED
    BY <1>1, <1>10, <2>5, <2>6, ListKept
<1>11. CASE q # NULL /\ call_process(state, q, Top.ev, Append(Below, r)) /\ due' = due \ {q}
  <2>1. due' \subseteq Proc
    BY <1>5, <1>11
  <2> QED
    BY <1>1, <1>3, <1>5, <1>8, <1>11, <2>1, ListAdvance
<1> QED
  BY <1>7, <1>9, <1>10, <1>11

LEMMA BcastDeliverLists ==
    ASSUME ListInv, BcastDeliver
    PROVE  ListInv'
<1> DEFINE r == [Top EXCEPT !.pc = "bcast"]
<1>1. /\ KernelType /\ Stacked(stack) /\ stack # <<>> /\ Top.pc = "deliver"
      /\ UNCHANGED <<process_list, oldNext, needspoll, events, wanted>>
      /\ call_process(state, Top.at, Top.ev, Append(Below, r)) /\ due' = due \ {Top.at}
  BY DEF ListInv, BcastDeliver, TopIs
<1>2. Top \in Frames /\ Formed(Top)
  BY <1>1, StackedPop
<1>3. Top.at \in Proc /\ Top.at # Start /\ Top.ev \in Event
  BY <1>1, <1>2, FrameKinds DEF Loops, Formed
<1>4. r \in Frames /\ r.pc = "bcast" /\ r.p = Top.p /\ r.old = Top.old /\ r.at = Top.at
  BY <1>2 DEF Frames
<1> HIDE DEF r
<1>5. GoesOn(Top, r) /\ ~IsUser(r)
  BY <1>1, <1>3, <1>4, KernelAssumption DEF GoesOn, Formed, Loops, IsUser, Exits
<1>6. /\ state \in [Proc -> ProcState] /\ needspoll' \in [Proc -> BOOLEAN] /\ wanted' \subseteq Proc
      /\ due' \subseteq Proc
  BY <1>1 DEF KernelType
<1> QED
  BY <1>1, <1>3, <1>5, <1>6, ListAdvance

\* The stack rest of a caller of the kernel.
CallerLists(rest) ==
    /\ Stacked(rest) /\ Current(rest, process_current) /\ Leaving(rest) = Leaving(stack)

LEMMA ListCaller ==
    ASSUME ListInv
    PROVE  /\ CallerLists(stack)
           /\ UserOnTop /\ Top.n < MaxCalls =>
                 LET g == [Top EXCEPT !.n = @ + 1]
                 IN  /\ CallerLists(Calling) /\ Calling[Len(stack)] = g /\ g \in Frames
                     /\ g.pc = Top.pc /\ g.p = Top.p /\ g.old = Top.old
<1>1. Stacked(stack) /\ Current(stack, process_current)
  BY DEF ListInv
<1>2. ASSUME UserOnTop, Top.n < MaxCalls
      PROVE  LET g == [Top EXCEPT !.n = @ + 1]
             IN  /\ CallerLists(Calling) /\ Calling[Len(stack)] = g /\ g \in Frames
                 /\ g.pc = Top.pc /\ g.p = Top.p /\ g.old = Top.old
  <2> DEFINE g == [Top EXCEPT !.n = @ + 1]
  <2>1. stack # <<>> /\ IsUser(Top) /\ Top = stack[Len(stack)] /\ Top \in Frames /\ Formed(Top)
    BY <1>1, <1>2, StackedPop DEF UserOnTop
  <2>2. Top.n \in 0 .. MaxCalls /\ MaxCalls \in Nat
    BY <2>1, FrameKinds, KernelAssumption
  <2>3. Top.n + 1 \in 0 .. MaxCalls
    BY <1>2, <2>2
  <2>4. g \in Frames /\ g.pc = Top.pc /\ g.p = Top.p /\ g.old = Top.old /\ g.at = Top.at
    BY <2>1, <2>3 DEF Frames
  <2>5. Calling = Append(Below, g)
    BY DEF Calling
  <2> HIDE DEF g
  <2>6. GoesOn(Top, g)
    BY <2>1, <2>4 DEF GoesOn, Formed, Loops, Exits, IsUser
  <2>7. /\ Stacked(Calling) /\ Calling # <<>> /\ Calling[Len(Calling)] = g
        /\ Leaving(Calling) = Leaving(stack)
    BY <1>1, <2>1, <2>5, <2>6, StackedGoesOn
  <2>8. Current(Calling, process_current)
    BY <1>1, <2>1, <2>4, <2>7 DEF Current, IsUser
  <2>9. Calling[Len(stack)] = g
    <3>1. Under(stack) \in Seq(Frames) /\ Len(Under(stack)) \in Nat /\ Len(stack) = Len(Under(stack)) + 1
      BY <1>1, <2>1, PopSeq DEF Stacked
    <3>2. Below = Under(stack)
      BY DEF Below, Under
    <3>3. Len(Calling) = Len(stack)
      BY <2>4, <2>5, <3>1, <3>2, PushSeq
    <3> QED
      BY <2>7, <3>3
  <2> QED
    BY <2>4, <2>7, <2>8, <2>9 DEF g, CallerLists
<1> QED
  BY <1>1, <1>2 DEF CallerLists

\* A kernel call that returns at once.
LEMMA ListReturns ==
    ASSUME ListInv, NEW rest, CallerLists(rest), stack' = rest,
           UNCHANGED <<process_list, oldNext, state, process_current>>,
           events' \in Seq([ev : UserEvent, p : Proc \cup {NULL}]),
           needspoll' \in [Proc -> BOOLEAN], wanted' \subseteq Proc, due' \subseteq Proc
    PROVE  ListInv'
<1>1. KernelType'
  BY DEF ListInv, KernelType
<1> QED
  BY <1>1, ListKept DEF CallerLists

\* process_post_synch saves process_current.
LEMMA ListSynch ==
    ASSUME NEW rest, CallerLists(rest), process_current \in Proc \cup {NULL}
    PROVE  LET u == Append(rest, Synch(process_current))
           IN  Stacked(u) /\ u # <<>> /\ ~IsUser(u[Len(u)]) /\ Leaving(u) = Leaving(stack)
<1> DEFINE g == Synch(process_current)
           u == Append(rest, g)
<1>1. g \in Frames /\ g.pc = "synch" /\ g.old = process_current
  BY KernelAssumption DEF Synch, Frame, Frames, Event
<1> HIDE DEF g
<1>2. ~IsUser(g) /\ ~Exits(g) /\ Formed(g)
  BY <1>1 DEF IsUser, Exits, Loops, Formed
<1>3. rest # <<>> => Nests(rest[Len(rest)], g)
  BY <1>1 DEF CallerLists, Nests, Current
<1>4. Stacked(u) /\ u # <<>> /\ u[Len(u)] = g /\ Leaving(u) = Leaving(rest)
  BY <1>1, <1>2, <1>3, StackedPush DEF CallerLists
<1> QED
  BY <1>2, <1>4 DEF CallerLists, g

LEMMA CallSynchLists ==
    ASSUME ListInv, CallSynch
    PROVE  ListInv'
<1>1. /\ KernelType /\ state \in [Proc -> ProcState] /\ process_current \in Proc \cup {NULL}
      /\ UNCHANGED <<process_list, oldNext, needspoll, events, wanted, due>>
  BY DEF ListInv, KernelType, CallSynch
<1>2. CallerLists(Calling)
  BY ListCaller DEF CallSynch, MayNest, MayCall
<1>3. PICK p \in Proc, ev \in UserEvent :
         call_process(state, p, ev, Append(Calling, Synch(process_current)))
  BY DEF CallSynch
<1> DEFINE u == Append(Calling, Synch(process_current))
<1>4. Stacked(u) /\ u # <<>> /\ ~IsUser(u[Len(u)]) /\ Leaving(u) = Leaving(stack)
  BY <1>1, <1>2, ListSynch
<1>5. call_process(state, p, ev, u) /\ ev \in Event
  BY <1>3 DEF Event
<1> HIDE DEF u
<1>6. /\ Stacked(stack') /\ Current(stack', process_current') /\ Leaving(stack') = Leaving(u)
      /\ state' \in [Proc -> ProcState] /\ process_current' \in Proc \cup {NULL}
      /\ \A q \in Proc : state'[q] = "NONE" <=> state[q] = "NONE"
  BY <1>1, <1>4, <1>5, StackedCall
<1>7. KernelType'
  BY <1>1, <1>6 DEF KernelType
<1> QED
  BY <1>1, <1>4, <1>6, <1>7, ListKept

LEMMA StartLists ==
    ASSUME ListInv, NEW p \in Proc, NEW rest, CallerLists(rest), process_start(p, rest)
    PROVE  ListInv'
<1>1. /\ KernelType /\ state \in [Proc -> ProcState] /\ process_current \in Proc \cup {NULL}
      /\ Alive(process_list, stack, state) /\ Once(process_list)
      /\ Members(process_list) \subseteq Proc
  BY MembersType DEF ListInv, KernelType, Alive
<1>2. /\ UNCHANGED <<oldNext, needspoll, events, wanted, due>>
      /\ events \in Seq([ev : UserEvent, p : Proc \cup {NULL}])
      /\ needspoll' \in [Proc -> BOOLEAN] /\ wanted' \subseteq Proc /\ due' \subseteq Proc
  BY <1>1 DEF process_start, KernelType
<1>3. CASE p \in OnList
  <2>1. stack' = rest /\ UNCHANGED <<process_list, state, process_current>>
    BY <1>3 DEF process_start
  <2> QED
    BY <1>2, <2>1, ListReturns
<1>4. CASE p \notin OnList
  <2> DEFINE u == Append(rest, Synch(process_current))
             st == [state EXCEPT ![p] = "RUNNING"]
  <2>1. p \notin Members(process_list) /\ process_list' = <<p>> \o process_list
        /\ call_process(st, p, "INIT", u)
    BY <1>4, InModel DEF process_start
  <2>2. Stacked(u) /\ u # <<>> /\ ~IsUser(u[Len(u)]) /\ Leaving(u) = Leaving(stack)
    BY <1>1, ListSynch
  <2>3. /\ st \in [Proc -> ProcState] /\ st[p] = "RUNNING"
        /\ \A q \in Proc : q # p => st[q] = state[q]
    BY <1>1 DEF ProcState
  <2> HIDE DEF u, st
  <2>4. "INIT" \in Event
    BY DEF Event
  <2>5. /\ Stacked(stack') /\ Current(stack', process_current') /\ Leaving(stack') = Leaving(u)
        /\ state' \in [Proc -> ProcState] /\ process_current' \in Proc \cup {NULL}
        /\ \A q \in Proc : state'[q] = "NONE" <=> st[q] = "NONE"
    BY <1>1, <2>1, <2>2, <2>3, <2>4, StackedCall
  <2>6. Once(process_list') /\ Members(process_list') = Members(process_list) \cup {p}
    BY <1>1, <2>1, AtHead
  <2>7. Alive(process_list', stack', state')
    BY <1>1, <2>2, <2>3, <2>5, <2>6 DEF Alive
  <2>8. KernelType'
    BY <1>1, <1>2, <2>5 DEF KernelType
  <2> QED
    BY <2>5, <2>7, <2>8 DEF ListInv
<1> QED
  BY <1>3, <1>4

LEMMA CallsList ==
    ASSUME ListInv, BootStart \/ CallStart \/ CallPost \/ CallPoll \/ CallExit
    PROVE  ListInv'
<1>1. /\ KernelType /\ events \in Seq([ev : UserEvent, p : Proc \cup {NULL}])
      /\ needspoll \in [Proc -> BOOLEAN] /\ wanted \subseteq Proc /\ due \subseteq Proc
      /\ process_current \in Proc \cup {NULL}
  BY DEF ListInv, KernelType
<1>2. CASE BootStart
  BY <1>2, ListCaller, StartLists DEF BootStart
<1>3. CASE CallStart
  <2>1. CallerLists(Calling)
    BY <1>3, ListCaller DEF CallStart, MayNest, MayCall
  <2> QED
    BY <1>3, <2>1, StartLists DEF CallStart
<1>4. CASE CallPost
  <2>1. CallerLists(Calling) /\ stack' = Calling
    BY <1>4, ListCaller DEF CallPost, MayCall
  <2>2. PICK p \in Proc \cup {NULL}, ev \in UserEvent : process_post(p, ev)
    BY <1>4 DEF CallPost
  <2>3. events' = events \/ events' = Append(events, [ev |-> ev, p |-> p])
    BY <2>2 DEF process_post
  <2>4. events' \in Seq([ev : UserEvent, p : Proc \cup {NULL}])
    <3> DEFINE E == [ev : UserEvent, p : Proc \cup {NULL}]
               e == [ev |-> ev, p |-> p]
    <3>1. e \in E /\ events \in Seq(E) /\ (events' = events \/ events' = Append(events, e))
      BY <1>1, <2>3
    <3> HIDE DEF E, e
    <3>2. events' \in Seq(E)
      BY <3>1, AppendProperties
    <3> QED
      BY <3>2 DEF E
  <2>5. UNCHANGED <<process_list, oldNext, state, needspoll, process_current, wanted, due>>
    BY <2>2 DEF process_post
  <2> QED
    BY <1>1, <2>1, <2>4, <2>5, ListReturns
<1>5. CASE CallPoll
  <2>1. CallerLists(Calling) /\ stack' = Calling
    BY <1>5, ListCaller DEF CallPoll, MayCall
  <2>2. PICK p \in Proc : process_poll(p)
    BY <1>5 DEF CallPoll
  <2>3. needspoll' \in [Proc -> BOOLEAN] /\ wanted' \subseteq Proc
    BY <1>1, <2>2 DEF process_poll
  <2>4. UNCHANGED <<process_list, oldNext, state, process_current, events, due>>
    BY <2>2 DEF process_poll
  <2> QED
    BY <1>1, <2>1, <2>3, <2>4, ListReturns
<1>6. CASE CallExit
  <2>1. CallerLists(Calling)
    BY <1>6, ListCaller DEF CallExit, MayNest, MayCall
  <2>2. PICK p \in Proc : exit_process(p, process_current, Calling)
    BY <1>6 DEF CallExit
  <2>3. UNCHANGED <<process_list, oldNext, needspoll, events>>
    BY <1>6 DEF CallExit
  <2> QED
    BY <1>1, <2>1, <2>2, <2>3, StackedExit DEF CallerLists
<1> QED
  BY <1>2, <1>3, <1>4, <1>5, <1>6

LEMMA CallContextLists ==
    ASSUME ListInv, CallContext
    PROVE  ListInv'
<1>1. /\ KernelType /\ Stacked(stack) /\ Current(stack, process_current)
      /\ process_current \in Proc \cup {NULL}
  BY DEF ListInv, KernelType
<1>2. /\ stack # <<>> /\ IsUser(Top)
      /\ UNCHANGED <<process_list, oldNext, state, needspoll, events, wanted, due>>
  BY DEF CallContext, UserOnTop
<1>3. Top \in Frames /\ Formed(Top) /\ Top = stack[Len(stack)]
  BY <1>1, <1>2, StackedPop
<1>4. Top.p \in Proc /\ Top.old \in {NULL, Top.p} /\ Top.p # NULL
  BY <1>2, <1>3, KernelAssumption DEF Formed
<1>5. ASSUME NEW g \in Frames, g.pc = Top.pc, g.p = Top.p, g.old \in {NULL, Top.p},
             g.old = NULL => process_current' = Top.p, process_current' \in Proc,
             stack' = Append(Below, g)
      PROVE  ListInv'
  <2>1. IsUser(g) /\ GoesOn(Top, g)
    BY <1>2, <1>4, <1>5 DEF GoesOn, Formed, Loops, Exits, IsUser
  <2>2. Stacked(stack') /\ stack'[Len(stack')] = g /\ Leaving(stack') = Leaving(stack)
    BY <1>1, <1>2, <1>5, <2>1, StackedGoesOn
  <2>3. Current(stack', process_current')
    BY <1>5, <2>2 DEF Current
  <2>4. KernelType'
    BY <1>1, <1>2, <1>5 DEF KernelType
  <2> QED
    BY <1>2, <2>2, <2>3, <2>4, ListKept
<1>6. CASE /\ MayCall("context") /\ Top.old = NULL
           /\ process_current' \in Proc
           /\ stack' = Append(Below, [Calling[Len(stack)] EXCEPT !.old = process_current])
  <2> DEFINE c == [Top EXCEPT !.n = @ + 1]
             g == [c EXCEPT !.old = process_current]
  <2>1. Calling[Len(stack)] = c /\ c \in Frames /\ c.pc = Top.pc /\ c.p = Top.p
    BY <1>6, ListCaller DEF MayCall
  <2>2. stack' = Append(Below, g)
    BY <1>6, <2>1
  <2> HIDE DEF c
  <2>3. g \in Frames /\ g.pc = Top.pc /\ g.p = Top.p /\ g.old = process_current
    BY <1>1, <2>1 DEF Frames
  <2>4. process_current = Top.p
    BY <1>1, <1>2, <1>3, <1>6 DEF Current
  <2> HIDE DEF g
  <2> QED
    BY <1>4, <1>5, <1>6, <2>2, <2>3, <2>4
<1>7. CASE Top.old # NULL /\ process_current' = Top.old /\ stack' = Append(Below, [Top EXCEPT !.old = NULL])
  <2> DEFINE g == [Top EXCEPT !.old = NULL]
  <2>1. g \in Frames /\ g.pc = Top.pc /\ g.p = Top.p /\ g.old = NULL
    BY <1>3 DEF Frames
  <2>2. stack' = Append(Below, g) /\ process_current' = Top.p
    BY <1>4, <1>7
  <2> HIDE DEF g
  <2> QED
    BY <1>4, <1>5, <2>1, <2>2
<1> QED
  BY <1>6, <1>7 DEF CallContext

LEMMA ThreadReturnLists ==
    ASSUME ListInv, ThreadReturn
    PROVE  ListInv'
<1>1. /\ KernelType /\ state \in [Proc -> ProcState] /\ stack # <<>> /\ IsUser(Top)
      /\ UNCHANGED <<process_list, oldNext, needspoll, events>>
  BY DEF ListInv, KernelType, ThreadReturn, UserOnTop
<1>2. /\ Stacked(Below) /\ Formed(Top) /\ (Below # <<>> => Nests(Below[Len(Below)], Top))
      /\ Leaving(stack) = Leaving(Below)
  BY <1>1, StackedPop DEF ListInv, IsUser, Exits
<1>3. ~Exits(Top) /\ Top.pc # "synch" /\ Top.p \in Proc
  BY <1>1, <1>2 DEF Formed, IsUser, Exits
<1>4. CASE state' = [state EXCEPT ![Top.p] = "RUNNING"] /\ stack' = Below /\ UNCHANGED <<process_current, wanted, due>>
  <2>1. KernelType' /\ \A r \in Proc : state'[r] = "NONE" => state[r] = "NONE"
    BY <1>1, <1>3, <1>4 DEF KernelType, ProcState
  <2> QED
    BY <1>1, <1>3, <1>4, <2>1, ListPopped
<1>5. CASE exit_process(Top.p, Top.p, Below)
  <2>1. Current(Below, process_current)
    BY <1>2, <1>3 DEF Current, Nests
  <2> QED
    BY <1>1, <1>2, <1>3, <1>5, <2>1, StackedExit
<1>6. CASE stack' = Below /\ UNCHANGED <<state, process_current, wanted, due>>
  <2>1. KernelType'
    BY <1>1, <1>6 DEF KernelType
  <2> QED
    BY <1>1, <1>3, <1>6, <2>1, ListPopped
<1> QED
  BY <1>4, <1>5, <1>6 DEF ThreadReturn

LEMMA MainLists ==
    ASSUME ListInv, BootDone \/ RunPoll \/ RunEvent \/ Interrupt
    PROVE  ListInv'
<1>1. /\ KernelType /\ needspoll \in [Proc -> BOOLEAN] /\ wanted \subseteq Proc
      /\ state \in [Proc -> ProcState] /\ process_current \in Proc \cup {NULL}
      /\ Stacked(stack) /\ Once(process_list)
  BY DEF ListInv, KernelType, Alive
<1>2. ASSUME stack = <<>>, NEW f \in Frames, f.pc \in {"poll", "bcast"}, f.at = Start,
             stack' = <<f>>, UNCHANGED <<process_list, state, process_current>>, KernelType'
      PROVE  ListInv'
  <2>1. ~IsUser(f) /\ ~Exits(f) /\ Formed(f)
    BY <1>2, KernelAssumption DEF IsUser, Exits, Loops, Formed
  <2>2. stack' = Append(stack, f)
    BY <1>2
  <2>3. Stacked(stack') /\ stack'[Len(stack')] = f /\ Leaving(stack') = Leaving(stack)
    BY <1>1, <1>2, <2>1, <2>2, StackedPush
  <2>4. Current(stack', process_current')
    BY <2>1, <2>3 DEF Current
  <2> QED
    BY <1>2, <2>3, <2>4, ListKept
<1>3. CASE BootDone
  BY <1>3 DEF BootDone, ListInv, KernelType
<1>4. CASE RunPoll
  <2>1. /\ stack = <<>> /\ (stack' = <<PollLoop>> \/ stack' = stack)
        /\ UNCHANGED <<process_list, oldNext, state, needspoll, process_current, events, wanted, due>>
    BY <1>4 DEF RunPoll
  <2>2. KernelType'
    BY <1>1, <2>1 DEF KernelType
  <2>3. PollLoop \in Frames /\ PollLoop.pc = "poll" /\ PollLoop.at = Start
    BY KernelAssumption DEF PollLoop, Frame, Frames, Event
  <2>4. CASE stack' = stack
    BY <2>1, <2>2, <2>4 DEF ListInv
  <2> QED
    BY <1>2, <2>1, <2>2, <2>3, <2>4
<1>5. CASE Interrupt
  <2>1. PICK p \in Proc : process_poll(p)
    BY <1>5, KernelAssumption DEF Interrupt
  <2>2. UNCHANGED <<stack, process_list, oldNext, state, process_current, events, due>>
    BY <1>5, <2>1 DEF Interrupt, process_poll
  <2>3. needspoll' \in [Proc -> BOOLEAN] /\ wanted' \subseteq Proc
    BY <1>1, <2>1 DEF process_poll
  <2>4. KernelType'
    BY <1>1, <2>2, <2>3 DEF KernelType
  <2> QED
    BY <2>2, <2>4 DEF ListInv
<1>6. CASE RunEvent /\ events = <<>>
  BY <1>6 DEF RunEvent, ListInv, KernelType
<1>7. CASE RunEvent /\ events # <<>>
  <2> DEFINE E == [ev : UserEvent, p : Proc \cup {NULL}]
             e == Head(events)
  <2>1. e \in E /\ Tail(events) \in Seq(E)
    BY <1>1, <1>7, HeadTailProperties DEF KernelType
  <2>2. e.ev \in UserEvent /\ e.p \in Proc \cup {NULL} /\ e.ev # "INIT" /\ e.ev \in Event
    BY <2>1, KernelAssumption DEF Event
  <2>3. /\ stack = <<>> /\ UNCHANGED <<process_list, oldNext, needspoll, wanted>>
        /\ events' = Tail(events)
        /\ \/ e.p = NULL /\ stack' = <<BcastLoop(e.ev)>> /\ due' = OnList /\ UNCHANGED <<state, process_current>>
           \/ e.p # NULL /\ call_process(state, e.p, e.ev, stack) /\ UNCHANGED due
    BY <1>7, <2>2 DEF RunEvent
  <2> HIDE DEF e
  <2>4. CASE e.p = NULL /\ stack' = <<BcastLoop(e.ev)>> /\ due' = OnList /\ UNCHANGED <<state, process_current>>
    <3>1. BcastLoop(e.ev) \in Frames /\ BcastLoop(e.ev).pc = "bcast" /\ BcastLoop(e.ev).at = Start
      BY <2>2, KernelAssumption DEF BcastLoop, Frame, Frames
    <3>2. OnList \subseteq Proc
      BY <1>1, MembersType, InModel
    <3>3. KernelType'
      BY <1>1, <2>1, <2>3, <2>4, <3>2 DEF KernelType
    <3> QED
      BY <1>2, <2>3, <2>4, <3>1, <3>3
  <2>5. CASE e.p # NULL /\ call_process(state, e.p, e.ev, stack) /\ UNCHANGED due
    <3>1. e.p \in Proc
      BY <2>2, <2>5
    <3>2. /\ Stacked(stack') /\ Current(stack', process_current') /\ Leaving(stack') = Leaving(stack)
          /\ state' \in [Proc -> ProcState] /\ process_current' \in Proc \cup {NULL}
          /\ \A q \in Proc : state'[q] = "NONE" <=> state[q] = "NONE"
      BY <1>1, <2>2, <2>3, <2>5, <3>1, StackedCall
    <3>3. KernelType'
      BY <1>1, <2>1, <2>3, <2>5, <3>2 DEF KernelType
    <3> QED
      BY <2>3, <3>2, <3>3, ListKept
  <2> QED
    BY <2>3, <2>4, <2>5
<1> QED
  BY <1>3, <1>4, <1>5, <1>6, <1>7

LEMMA ListInvInvariant == Spec => []ListInv
<1>1. process_init => ListInv
  <2> SUFFICES ASSUME process_init PROVE ListInv
    OBVIOUS
  <2>1. KernelType /\ Current(stack, process_current)
    BY StackInvInit DEF StackInv
  <2>2. process_list = <<>> /\ stack = <<>>
    BY DEF process_init
  <2>3. Once(process_list) /\ Members(process_list) = {} /\ Stacked(stack)
    BY <2>2, EmptySeq DEF Once, Members, Stacked
  <2> QED
    BY <2>1, <2>3 DEF ListInv, Alive
<1>2. ASSUME ListInv, [Next]_vars PROVE ListInv'
  <2>1. CASE UNCHANGED vars
    BY <1>2, <2>1 DEF vars, ListInv, KernelType
  <2>2. CASE Next
    BY <1>2, <2>2, ExitNotifyLists, ExitUnlinkLists, SynchReturnLists, PollStepLists,
       BcastStepLists, BcastDeliverLists, CallSynchLists, CallsList, CallContextLists,
       ThreadReturnLists, MainLists
       DEF Next, Step
  <2> QED
    BY <1>2, <2>1, <2>2
<1> QED
  BY <1>1, <1>2, PTL DEF Spec

\* Spec => []ListMatchesState: whatever processes start, stop and restart from within each
\* other's handlers, process_list holds no process twice and none that is stopped, unless it
\* is being exited; and every process that runs, until one is ended in the middle of a call.
THEOREM KernelListMatchesState == Spec => []ListMatchesState
<1>1. ASSUME ListInv
      PROVE  /\ \A i, j \in DOMAIN process_list : process_list[i] = process_list[j] => i = j
             /\ \A p \in OnList : state[p] # "NONE" \/ Exiting(p)
  <2>1. Stacked(stack) /\ Alive(process_list, stack, state) /\ Once(process_list)
    BY <1>1 DEF ListInv, Alive
  <2>2. DOMAIN process_list = 1 .. Len(process_list) /\ DOMAIN stack = 1 .. Len(stack)
    BY <2>1, LenProperties DEF Once, Stacked
  <2>3. \A p \in Proc : Exiting(p) <=> p \in Leaving(stack)
    BY <2>2 DEF Exiting, Leaving, Exits
  <2>4. Members(process_list) \subseteq Proc
    BY <2>1, MembersType
  <2> QED
    BY <2>1, <2>2, <2>3, <2>4, InModel DEF Once, Alive
<1>2. ASSUME StackInv
      PROVE  \A p \in Proc : state[p] # "NONE" \/ Exiting(p) => p \in OnList
  <2>1. Shape(stack) /\ Listed(process_list, stack, state)
    BY <1>2 DEF StackInv
  <2>2. DOMAIN stack = 1 .. Len(stack)
    BY <2>1, LenProperties DEF Shape
  <2>3. \A p \in Proc : Exiting(p) <=> p \in Leaving(stack)
    BY <2>2 DEF Exiting, Leaving, Exits
  <2> QED
    BY <2>1, <2>3, InModel DEF Listed
<1>3. ListInv /\ (torn \/ StackInv) => ListMatchesState
  BY <1>1, <1>2 DEF ListMatchesState
<1> QED
  BY <1>3, StackInvInvariant, ListInvInvariant, PTL

\* Spec => []CurrentIsRunning: every call restores process_current before the thread function
\* that made it goes on.
THEOREM KernelCurrentIsRunning == Spec => []CurrentIsRunning
<1>1. ASSUME ListInv PROVE CurrentIsRunning
  BY <1>1 DEF ListInv, Current, CurrentIsRunning, UserOnTop, Top
<1> QED
  BY <1>1, ListInvInvariant, PTL

-----------------------------------------------------------------------------
(* Until a process is ended in the middle of a call.                       *)

\* Spec => []NoReentry: no order of synchronous posts, polls, starts and exits enters a thread
\* function that has not returned, and PROCESS_STATE_CALLED marks exactly the active ones,
\* until a process is ended in the middle of a call.
THEOREM KernelNoReentry == Spec => []NoReentry
<1>1. ASSUME StackInv PROVE NoReentry
  <2>1. /\ Shape(stack) /\ Marked(stack, state)
    BY <1>1 DEF StackInv
  <2>2. /\ DOMAIN stack = 1 .. Len(stack) /\ Len(stack) \in Nat
        /\ \A i \in 1 .. Len(stack) : Fits(stack, i)
    BY <2>1, LenProperties DEF Shape
  <2>3. ASSUME NEW i \in 1 .. Len(stack), NEW j \in 1 .. Len(stack), stack[i].p = stack[j].p,
               (IsThread(stack[i]) /\ IsThread(stack[j])) \/ (Exits(stack[i]) /\ Exits(stack[j]))
        PROVE  i = j
    <3>1. ~(i < j) /\ ~(j < i)
      <4>1. ASSUME i < j PROVE FALSE
        <5>1. i \in 1 .. j - 1
          BY <2>2, <4>1
        <5> QED
          BY <2>2, <2>3, <5>1 DEF Fits, Apart
      <4>2. ASSUME j < i PROVE FALSE
        <5>1. j \in 1 .. i - 1
          BY <2>2, <4>2
        <5> QED
          BY <2>2, <2>3, <5>1 DEF Fits, Apart
      <4> QED
        BY <4>1, <4>2
    <3> QED
      BY <2>2, <3>1
  <2>4. ASSUME NEW i \in 1 .. Len(stack), stack[i].pc = "on_exit"
        PROVE  /\ i - 1 \in 1 .. Len(stack) /\ Exits(stack[i - 1]) /\ stack[i - 1].p = stack[i].p
               /\ stack[i].p \in Leaving(stack)
    <3>1. Fits(stack, i) /\ i # 1
      BY <2>2, <2>4 DEF Fits
    <3>2. i > 1 /\ i - 1 \in 1 .. Len(stack)
      BY <2>2, <3>1
    <3>3. stack[i - 1].pc = "unlink" /\ stack[i - 1].p = stack[i].p
      BY <2>4, <3>1, <3>2 DEF Fits, Calls
    <3>4. stack[i].p \in Proc
      BY <2>4, <3>1 DEF Fits, Formed, IsUser
    <3> QED
      BY <3>2, <3>3, <3>4 DEF Leaving, Exits
  <2>5. ASSUME NEW i \in 1 .. Len(stack), NEW j \in 1 .. Len(stack), stack[i].p = stack[j].p,
               IsThread(stack[i]), stack[j].pc = "on_exit"
        PROVE  FALSE
    <3>1. stack[j].p \in Leaving(stack) /\ stack[i].p \in Proc
      BY <2>4, <2>5 DEF Leaving
    <3>2. stack[i].p \in Running(stack)
      BY <2>5, <3>1 DEF Running
    <3> QED
      BY <2>1, <2>5, <3>1, <3>2 DEF Marked
  <2>6. ASSUME NEW i \in 1 .. Len(stack), NEW j \in 1 .. Len(stack), stack[i].p = stack[j].p,
               stack[i].pc = "on_exit", stack[j].pc = "on_exit"
        PROVE  i = j
    <3>1. /\ i - 1 \in 1 .. Len(stack) /\ Exits(stack[i - 1]) /\ stack[i - 1].p = stack[i].p
          /\ j - 1 \in 1 .. Len(stack) /\ Exits(stack[j - 1]) /\ stack[j - 1].p = stack[j].p
      BY <2>4, <2>6
    <3>2. i - 1 = j - 1
      BY <2>3, <2>6, <3>1
    <3> QED
      BY <2>2, <3>2
  <2>7. ASSUME NEW i \in 1 .. Len(stack), NEW j \in 1 .. Len(stack), stack[i].p = stack[j].p,
               IsUser(stack[i]), IsUser(stack[j])
        PROVE  i = j
    <3>1. /\ IsThread(stack[i]) \/ stack[i].pc = "on_exit"
          /\ IsThread(stack[j]) \/ stack[j].pc = "on_exit"
      BY <2>7 DEF IsUser, IsThread
    <3>2. CASE IsThread(stack[i]) /\ IsThread(stack[j])
      BY <2>3, <2>7, <3>2
    <3>3. CASE IsThread(stack[i]) /\ stack[j].pc = "on_exit"
      BY <2>5, <2>7, <3>3
    <3>4. CASE IsThread(stack[j]) /\ stack[i].pc = "on_exit"
      BY <2>5, <2>7, <3>4
    <3>5. CASE stack[i].pc = "on_exit" /\ stack[j].pc = "on_exit"
      BY <2>6, <2>7, <3>5
    <3> QED
      BY <3>1, <3>2, <3>3, <3>4, <3>5
  <2>8. ASSUME NEW p \in Proc
        PROVE  state[p] = "CALLED" <=> \E i \in DOMAIN stack : stack[i].pc = "thread" /\ stack[i].p = p
    BY <2>1, <2>2 DEF Marked, Running, IsThread
  <2> QED
    BY <2>2, <2>7, <2>8 DEF NoReentry
<1>2. torn => NoReentry
  BY DEF NoReentry
<1> QED
  BY <1>1, <1>2, StackInvInvariant, PTL

-----------------------------------------------------------------------------
(* Polls and broadcasts.                                                   *)

\* The loop of f has p ahead of it on the list.
Comes(l, o, f, p) ==
    \E i, j \in 1 .. Len(l) : i <= j /\ l[i] = Reached(l, o, f) /\ l[j] = p

\* A poll that was requested for p will be answered.
PollInv ==
    \A p \in wanted :
       /\ state[p] # "NONE" /\ needspoll[p]
       /\ \/ poll_requested
          \/ \E i \in 1 .. Len(stack) :
                stack[i].pc = "poll" /\ Comes(process_list, oldNext, stack[i], p)

\* From the process x the pointers lead to d: every set that contains x and is closed under
\* them contains d.  A broadcast may follow the pointers of processes that have left the list.
Closed(l, o, S) == \A x \in S : After(l, o, x) \in S \cup {NULL}
Leads(l, o, x, d) == \A S \in SUBSET Proc : x \in S /\ Closed(l, o, S) => d \in S

\* The broadcast loop of f will call d.
Delivers(l, o, f, d) ==
    /\ f.pc \in {"bcast", "deliver"}
    /\ \/ f.pc = "deliver" /\ d = f.at
       \/ Reached(l, o, f) # NULL /\ Leads(l, o, Reached(l, o, f), d)

BcastInv ==
    \A d \in due : /\ state[d] # "NONE" /\ stack # <<>>
                   /\ Delivers(process_list, oldNext, stack[1], d)

\* The stack t keeps the activations of u at their places.
Extends(u, t) == \A i \in 1 .. Len(u) : i \in 1 .. Len(t) /\ t[i] = u[i]

LEMMA ExtendsPush ==
    ASSUME NEW S, NEW u, NEW s \in Seq(S), Extends(u, s), NEW f
    PROVE  Append(s, f) \in Seq(S \cup {f}) /\ Extends(u, Append(s, f))
<1> DEFINE t == Append(s, f)
           T == S \cup {f}
<1>1. s \in Seq(T) /\ f \in T
  OBVIOUS
<1>2. /\ t \in Seq(T) /\ Len(s) \in Nat /\ Len(t) = Len(s) + 1
      /\ \A i \in 1 .. Len(s) : t[i] = s[i]
  BY <1>1, PushSeq
<1> HIDE DEF t, T
<1>3. Extends(u, t)
  BY <1>2 DEF Extends
<1> QED
  BY <1>2, <1>3 DEF t, T

LEMMA ExtendsCall ==
    ASSUME NEW S, NEW u, NEW rest \in Seq(S), Extends(u, rest), NEW st, NEW p, NEW ev,
           call_process(st, p, ev, rest)
    PROVE  Extends(u, stack')
<1>1. stack' = rest \/ stack' = Append(rest, Thread(p, ev))
  BY DEF call_process
<1>2. Extends(u, Append(rest, Thread(p, ev)))
  BY ExtendsPush
<1> QED
  BY <1>1, <1>2

\* A step changes nothing below the top.
LEMMA StackBelow ==
    ASSUME StackInv, stack # <<>>, Step
    PROVE  Extends(Below, stack')
<1>1. Shape(stack)
  BY DEF StackInv
<1>2. Below \in Seq(Frames) /\ Extends(Below, Below)
  BY <1>1, TopFacts DEF Shape, Extends
<1>3. \A f : Append(Below, f) \in Seq(Frames \cup {f}) /\ Extends(Below, Append(Below, f))
  BY <1>2, ExtendsPush
<1>4. \A f, g : /\ Append(Append(Below, f), g) \in Seq((Frames \cup {f}) \cup {g})
                /\ Extends(Below, Append(Append(Below, f), g))
  BY <1>3, ExtendsPush
<1>6. CASE ExitUnlink \/ SynchReturn
  BY <1>2, <1>6 DEF ExitUnlink, SynchReturn
<1>7. CASE ExitNotify
  <2> DEFINE q == Cursor(Top)
             g == [Top EXCEPT !.pc = "unlink"]
             r == [Top EXCEPT !.at = q]
  <2>1. \/ stack' = Append(Append(Below, g), OnExit(Top.p))
        \/ stack' = Append(Below, g)
        \/ stack' = Append(Below, r)
        \/ call_process(state, q, "EXITED", Append(Below, r))
    BY <1>7 DEF ExitNotify
  <2> HIDE DEF g, r, q
  <2> QED
    BY <1>3, <1>4, <2>1, ExtendsCall
<1>8. CASE PollStep
  <2> DEFINE q == Cursor(Top)
             r == [Top EXCEPT !.at = q]
             st == [state EXCEPT ![q] = "RUNNING"]
  <2>1. \/ stack' = Below
        \/ stack' = Append(Below, r)
        \/ call_process(st, q, "POLL", Append(Below, r))
    BY <1>8 DEF PollStep
  <2> HIDE DEF st, r, q
  <2> QED
    BY <1>2, <1>3, <2>1, ExtendsCall
<1>9. CASE BcastStep
  <2>1. Below = <<>>
    <3>1. stack[Len(stack)] = Top /\ Below = Under(stack) /\ Top.pc = "bcast"
      BY <1>9 DEF Top, Below, Under, BcastStep, TopIs
    <3> QED
      BY <1>1, <3>1, Pop
  <2>2. Len(Below) = 0
    BY <2>1
  <2>3. \A i \in 1 .. Len(Below) : FALSE
    BY <2>2
  <2> QED
    BY <2>3 DEF Extends
<1>10. CASE BcastDeliver
  <2> DEFINE r == [Top EXCEPT !.pc = "bcast"]
  <2>1. call_process(state, Top.at, Top.ev, Append(Below, r))
    BY <1>10 DEF BcastDeliver
  <2> HIDE DEF r
  <2> QED
    BY <1>3, <2>1, ExtendsCall
<1>11. CASE CallPost \/ CallPoll
  <2>1. \E f : stack' = Append(Below, f)
    BY <1>11 DEF CallPost, CallPoll, Calling
  <2> QED
    BY <1>3, <2>1
<1>12. CASE CallSynch
  <2> DEFINE c == [Top EXCEPT !.n = @ + 1]
             y == Synch(process_current)
  <2>1. PICK p \in Proc, ev \in UserEvent : call_process(state, p, ev, Append(Append(Below, c), y))
    BY <1>12 DEF CallSynch, Calling
  <2> HIDE DEF c, y
  <2> QED
    BY <1>4, <2>1, ExtendsCall
<1>13. CASE CallStart
  <2> DEFINE c == [Top EXCEPT !.n = @ + 1]
             y == Synch(process_current)
  <2>1. PICK p \in Proc : process_start(p, Append(Below, c))
    BY <1>13 DEF CallStart, Calling
  <2> DEFINE st == [state EXCEPT ![p] = "RUNNING"]
  <2>2. \/ stack' = Append(Below, c)
        \/ call_process(st, p, "INIT", Append(Append(Below, c), y))
    BY <2>1 DEF process_start
  <2> HIDE DEF c, y, st
  <2> QED
    BY <1>3, <1>4, <2>2, ExtendsCall
<1>14. CASE CallExit
  <2> DEFINE c == [Top EXCEPT !.n = @ + 1]
  <2>1. PICK p \in Proc : exit_process(p, process_current, Append(Below, c))
    BY <1>14 DEF CallExit, Calling
  <2> HIDE DEF c
  <2>2. stack' = Append(Below, c) \/ \E f : stack' = Append(Append(Below, c), f)
    BY <2>1 DEF exit_process
  <2> QED
    BY <1>3, <1>4, <2>2
<1>15. CASE CallContext
  <2>1. \E f : stack' = Append(Below, f)
    BY <1>15 DEF CallContext
  <2> QED
    BY <1>3, <2>1
<1>16. CASE ThreadReturn
  <2>1. stack' = Below \/ \E f : stack' = Append(Below, f)
    BY <1>16 DEF ThreadReturn, exit_process
  <2> QED
    BY <1>2, <1>3, <2>1
<1>17. CASE BootStart \/ BootDone \/ RunPoll \/ RunEvent
  BY <1>17 DEF BootStart, BootDone, RunPoll, RunEvent
<1> QED
  BY <1>6, <1>7, <1>8, <1>9, <1>10, <1>11, <1>12, <1>13, <1>14, <1>15, <1>16, <1>17 DEF Step

\* What a step does to the list.
LEMMA ListSteps ==
    ASSUME Next
    PROVE  \/ UNCHANGED <<process_list, oldNext>>
           \/ ExitUnlink
           \/ \E p \in Proc : /\ p \notin OnList /\ process_list' = <<p>> \o process_list
                              /\ UNCHANGED oldNext /\ (stack = <<>> \/ UserOnTop)
<1>1. CASE BootStart
  BY <1>1 DEF BootStart, process_start
<1>2. CASE CallStart
  BY <1>2 DEF CallStart, process_start, MayNest, MayCall
<1>3. CASE ExitNotify \/ SynchReturn \/ PollStep \/ BcastStep \/ BcastDeliver
  BY <1>3 DEF ExitNotify, SynchReturn, PollStep, BcastStep, BcastDeliver
<1>4. CASE BootDone \/ RunPoll \/ RunEvent
  BY <1>4 DEF BootDone, RunPoll, RunEvent
<1>5. CASE CallPost \/ CallPoll \/ CallSynch \/ CallExit \/ CallContext \/ ThreadReturn
  BY <1>5 DEF CallPost, CallPoll, CallSynch, CallExit, CallContext, ThreadReturn, process_post,
     process_poll
<1>6. CASE Interrupt
  BY <1>6 DEF Interrupt, process_poll
<1> QED
  BY <1>1, <1>2, <1>3, <1>4, <1>5, <1>6 DEF Next, Step

\* Which step can be the next with a loop on top.
LEMMA LoopOnTop ==
    ASSUME Next, stack # <<>>, Loops(Top)
    PROVE  \/ Top.pc = "poll" /\ PollStep
           \/ Top.pc = "bcast" /\ BcastStep
           \/ Top.pc = "deliver" /\ BcastDeliver
           \/ Interrupt
<1>1. ~UserOnTop
  BY DEF UserOnTop, Loops, IsUser
<1>2. ~CallPost /\ ~CallPoll /\ ~CallSynch /\ ~CallStart /\ ~CallExit /\ ~CallContext /\ ~ThreadReturn
  BY <1>1 DEF CallPost, CallPoll, CallSynch, CallStart, CallExit, CallContext, ThreadReturn,
     MayCall, MayNest
<1>3. ~BootStart /\ ~BootDone /\ ~RunPoll /\ ~RunEvent
  BY DEF BootStart, BootDone, RunPoll, RunEvent
<1>4. ~ExitNotify /\ ~ExitUnlink /\ ~SynchReturn
  BY DEF ExitNotify, ExitUnlink, SynchReturn, TopIs, Loops
<1>5. /\ PollStep => Top.pc = "poll"
      /\ BcastStep => Top.pc = "bcast"
      /\ BcastDeliver => Top.pc = "deliver"
  BY DEF PollStep, BcastStep, BcastDeliver, TopIs
<1> QED
  BY <1>2, <1>3, <1>4, <1>5 DEF Next, Step

\* Who waits for a poll, or for the broadcast, is alive and marked.
LEMMA WaitersLive ==
    ASSUME StackInv, PollInv, BcastInv, Next
    PROVE  /\ \A p \in wanted' : state'[p] # "NONE" /\ needspoll'[p]
           /\ \A d \in due' : state'[d] # "NONE"
<1>1. /\ KernelType /\ state \in [Proc -> ProcState] /\ needspoll \in [Proc -> BOOLEAN]
      /\ wanted \subseteq Proc /\ due \subseteq Proc /\ Listed(process_list, stack, state)
      /\ Once(process_list) /\ Shape(stack)
  BY DEF StackInv, KernelType, Listed
<1>2. /\ \A p \in wanted : state[p] # "NONE" /\ needspoll[p]
      /\ \A d \in due : state[d] # "NONE"
  BY DEF PollInv, BcastInv
<1>3. ASSUME NEW st \in [Proc -> ProcState], NEW p \in Proc, NEW ev, NEW rest,
             call_process(st, p, ev, rest), \A q \in Proc : state[q] # "NONE" => st[q] # "NONE"
      PROVE  \A q \in Proc : state[q] # "NONE" => state'[q] # "NONE"
  <2>1. state' = st \/ state' = [st EXCEPT ![p] = "CALLED"]
    BY <1>3 DEF call_process
  <2> QED
    BY <1>3, <2>1
<1>4. ASSUME UNCHANGED <<needspoll, wanted>>, due' \subseteq due,
             \A q \in Proc : state[q] # "NONE" => state'[q] # "NONE"
      PROVE  /\ \A p \in wanted' : state'[p] # "NONE" /\ needspoll'[p]
             /\ \A d \in due' : state'[d] # "NONE"
  BY <1>1, <1>2, <1>4
<1>5. ASSUME NEW p \in Proc, NEW from, NEW rest, exit_process(p, from, rest), UNCHANGED needspoll
      PROVE  /\ \A q \in wanted' : state'[q] # "NONE" /\ needspoll'[q]
             /\ \A d \in due' : state'[d] # "NONE"
  <2>1. \/ UNCHANGED <<state, wanted, due>>
        \/ /\ state' = [state EXCEPT ![p] = "NONE"]
           /\ wanted' = wanted \ {p} /\ due' = due \ {p}
    BY <1>5 DEF exit_process
  <2> QED
    BY <1>1, <1>2, <1>5, <2>1
<1>6. ASSUME NEW p \in Proc, process_poll(p)
      PROVE  /\ \A q \in wanted' : state'[q] # "NONE" /\ needspoll'[q]
             /\ \A d \in due' : state'[d] # "NONE"
  <2>1. /\ UNCHANGED <<state, due>>
        /\ \/ UNCHANGED <<needspoll, wanted>>
           \/ /\ state[p] # "NONE" /\ needspoll' = [needspoll EXCEPT ![p] = TRUE]
              /\ wanted' = wanted \cup {p}
    BY <1>6 DEF process_poll
  <2> QED
    BY <1>1, <1>2, <2>1
<1>7. CASE ExitUnlink \/ SynchReturn \/ BootDone \/ RunPoll \/ CallContext
  BY <1>4, <1>7 DEF ExitUnlink, SynchReturn, BootDone, RunPoll, CallContext
<1>8. CASE CallPost
  BY <1>4, <1>8 DEF CallPost, process_post
<1>9. CASE CallPoll
  BY <1>6, <1>9 DEF CallPoll
<1>10. CASE Interrupt
  BY <1>6, <1>10, KernelAssumption DEF Interrupt
<1>11. CASE CallExit
  BY <1>5, <1>11 DEF CallExit
<1>12. CASE ThreadReturn
  <2>1. stack # <<>> /\ IsUser(Top) /\ UNCHANGED needspoll
    BY <1>12 DEF ThreadReturn, UserOnTop
  <2>2. Top.p \in Proc
    BY <1>1, <2>1, TopFacts DEF Formed
  <2>3. CASE state' = [state EXCEPT ![Top.p] = "RUNNING"] /\ UNCHANGED <<wanted, due>>
    BY <1>1, <1>4, <2>1, <2>3
  <2>4. CASE exit_process(Top.p, Top.p, Below)
    BY <1>5, <2>1, <2>2, <2>4
  <2>5. CASE UNCHANGED <<state, wanted, due>>
    BY <1>4, <2>1, <2>5
  <2> QED
    BY <1>12, <2>3, <2>4, <2>5 DEF ThreadReturn
<1>13. CASE ExitNotify
  <2>1. UNCHANGED <<needspoll, wanted, due>> /\ stack # <<>> /\ Top.pc = "notify"
    BY <1>13 DEF ExitNotify, TopIs
  <2>2. Cursor(Top) \in Proc \cup {NULL}
    <3>1. Top.at \in Proc \cup {Start}
      BY <1>1, <2>1, TopFacts, FrameKinds DEF Formed, Loops
    <3> QED
      BY <1>1, <3>1, ReachedType, InModel DEF KernelType
  <2>3. UNCHANGED state \/ (Cursor(Top) # NULL /\ \E rest : call_process(state, Cursor(Top), "EXITED", rest))
    BY <1>13 DEF ExitNotify
  <2>4. \A q \in Proc : state[q] # "NONE" => state'[q] # "NONE"
    BY <1>1, <1>3, <2>2, <2>3
  <2> QED
    BY <1>4, <2>1, <2>4
<1>14. CASE BcastStep
  <2>1. UNCHANGED <<needspoll, wanted>> /\ due' \subseteq due /\ stack # <<>> /\ Top.pc = "bcast"
    BY <1>14 DEF BcastStep, TopIs
  <2>2. Cursor(Top) \in Proc \cup {NULL}
    <3>1. Top.at \in Proc \cup {Start}
      BY <1>1, <2>1, TopFacts, FrameKinds DEF Formed, Loops
    <3> QED
      BY <1>1, <3>1, ReachedType, InModel DEF KernelType
  <2>3. UNCHANGED state \/ (Cursor(Top) # NULL /\ \E rest : call_process(state, Cursor(Top), Top.ev, rest))
    BY <1>14 DEF BcastStep
  <2>4. \A q \in Proc : state[q] # "NONE" => state'[q] # "NONE"
    BY <1>1, <1>3, <2>2, <2>3
  <2> QED
    BY <1>4, <2>1, <2>4
<1>15. CASE BcastDeliver
  <2>1. /\ UNCHANGED <<needspoll, wanted>> /\ due' \subseteq due /\ stack # <<>> /\ Top.pc = "deliver"
        /\ \E rest : call_process(state, Top.at, Top.ev, rest)
    BY <1>15 DEF BcastDeliver, TopIs
  <2>2. Top.at \in Proc
    BY <1>1, <2>1, TopFacts, FrameKinds DEF Formed, Loops
  <2>3. \A q \in Proc : state[q] # "NONE" => state'[q] # "NONE"
    BY <1>1, <1>3, <2>1, <2>2
  <2> QED
    BY <1>4, <2>1, <2>3
<1>16. CASE PollStep
  <2> DEFINE q == Cursor(Top)
             st == [state EXCEPT ![q] = "RUNNING"]
  <2>1. UNCHANGED due /\ stack # <<>> /\ Top.pc = "poll"
    BY <1>16 DEF PollStep, TopIs
  <2>2. q \in Proc \cup {NULL}
    <3>1. Top.at \in Proc \cup {Start}
      BY <1>1, <2>1, TopFacts, FrameKinds DEF Formed, Loops
    <3> QED
      BY <1>1, <3>1, ReachedType, InModel DEF KernelType
  <2>3. \/ UNCHANGED <<state, needspoll, wanted>>
        \/ /\ q # NULL /\ needspoll' = [needspoll EXCEPT ![q] = FALSE] /\ wanted' = wanted \ {q}
           /\ \E rest : call_process(st, q, "POLL", rest)
    BY <1>16 DEF PollStep
  <2> HIDE DEF q
  <2>4. CASE UNCHANGED <<state, needspoll, wanted>>
    BY <1>4, <2>1, <2>4
  <2>5. CASE /\ q # NULL /\ needspoll' = [needspoll EXCEPT ![q] = FALSE] /\ wanted' = wanted \ {q}
             /\ \E rest : call_process(st, q, "POLL", rest)
    <3>1. q \in Proc
      BY <2>2, <2>5
    <3>2. st \in [Proc -> ProcState] /\ \A x \in Proc : state[x] # "NONE" => st[x] # "NONE"
      BY <1>1, <3>1 DEF ProcState
    <3> HIDE DEF st
    <3>3. \A x \in Proc : state[x] # "NONE" => state'[x] # "NONE"
      BY <1>3, <2>5, <3>1, <3>2
    <3> QED
      BY <1>1, <1>2, <2>1, <2>5, <3>3
  <2> QED
    BY <2>3, <2>4, <2>5
<1>17. CASE CallSynch
  <2>1. UNCHANGED <<needspoll, wanted, due>>
    BY <1>17 DEF CallSynch
  <2>2. \E p \in Proc, ev \in UserEvent, rest \in {Append(Calling, Synch(process_current))} :
           call_process(state, p, ev, rest)
    BY <1>17 DEF CallSynch
  <2>3. \A q \in Proc : state[q] # "NONE" => state'[q] # "NONE"
    BY <1>1, <1>3, <2>2
  <2> QED
    BY <1>4, <2>1, <2>3
<1>18. ASSUME NEW p \in Proc, NEW rest, process_start(p, rest)
       PROVE  /\ \A q \in wanted' : state'[q] # "NONE" /\ needspoll'[q]
              /\ \A d \in due' : state'[d] # "NONE"
  <2> DEFINE st == [state EXCEPT ![p] = "RUNNING"]
  <2>1. UNCHANGED <<needspoll, wanted, due>>
    BY <1>18 DEF process_start
  <2>2. UNCHANGED state \/ \E r : call_process(st, p, "INIT", r)
    BY <1>18 DEF process_start
  <2>3. st \in [Proc -> ProcState] /\ \A x \in Proc : state[x] # "NONE" => st[x] # "NONE"
    BY <1>1 DEF ProcState
  <2> HIDE DEF st
  <2>4. \A q \in Proc : state[q] # "NONE" => state'[q] # "NONE"
    BY <1>3, <2>2, <2>3
  <2> QED
    BY <1>4, <2>1, <2>4
<1>19. CASE BootStart \/ CallStart
  BY <1>18, <1>19 DEF BootStart, CallStart
<1>20. CASE RunEvent
  <2> DEFINE e == Head(events)
  <2>1. UNCHANGED <<needspoll, wanted>> /\ stack = <<>>
    BY <1>20 DEF RunEvent
  <2>2. CASE events = <<>>
    BY <1>4, <1>20, <2>2 DEF RunEvent
  <2>3. CASE events # <<>> /\ e.p = NULL
    <3>1. due' = OnList /\ UNCHANGED state
      BY <1>20, <2>3 DEF RunEvent
    <3>2. Leaving(stack) = {} /\ Members(process_list) \subseteq Proc
      BY <1>1, <2>1, EmptyStack, MembersType
    <3>3. \A d \in due' : state[d] # "NONE"
      BY <1>1, <3>1, <3>2, InModel DEF Listed
    <3> QED
      BY <1>2, <2>1, <3>1, <3>3
  <2>4. CASE events # <<>> /\ e.p # NULL
    <3>1. events \in Seq([ev : UserEvent, p : Proc \cup {NULL}])
      BY <1>1 DEF KernelType
    <3>2. e \in [ev : UserEvent, p : Proc \cup {NULL}]
      BY <2>4, <3>1, HeadTailProperties
    <3>3. e.p \in Proc /\ e.ev # "INIT"
      BY <2>4, <3>2, KernelAssumption
    <3>4. call_process(state, e.p, e.ev, stack) /\ UNCHANGED due
      BY <1>20, <2>4, <3>3 DEF RunEvent
    <3> HIDE DEF e
    <3>5. \A q \in Proc : state[q] # "NONE" => state'[q] # "NONE"
      BY <1>1, <1>3, <3>3, <3>4
    <3> QED
      BY <1>4, <2>1, <3>4, <3>5
  <2> QED
    BY <2>2, <2>3, <2>4
<1> QED
  BY <1>7, <1>8, <1>9, <1>10, <1>11, <1>12, <1>13, <1>14, <1>15, <1>16, <1>17, <1>19, <1>20
     DEF Next, Step

\* A poll loop that starts has every process of the list ahead.
LEMMA ComesStart ==
    ASSUME NEW l, Once(l), NEW o, NEW f, f.at = Start, NEW p \in Members(l)
    PROVE  Comes(l, o, f, p)
<1>1. PICK j \in 1 .. Len(l) : p = l[j]
  BY HasIndex
<1>2. Len(l) \in Nat /\ 1 \in 1 .. Len(l) /\ 1 <= j
  BY <1>1, AtIndex
<1>3. l # <<>>
  BY <1>2
<1>4. Reached(l, o, f) = l[1]
  BY <1>3 DEF Reached
<1> QED
  BY <1>1, <1>2, <1>4 DEF Comes

\* A step of the loop passes one process.
LEMMA ComesStep ==
    ASSUME NEW l, Once(l), NEW o, NEW f, NEW p, Comes(l, o, f, p), NEW g,
           g.at = Reached(l, o, f), g.at # Start, g.at # p
    PROVE  Comes(l, o, g, p)
<1>1. PICK i \in 1 .. Len(l), j \in 1 .. Len(l) : i <= j /\ l[i] = g.at /\ l[j] = p
  BY DEF Comes
<1>2. Len(l) \in Nat /\ After(l, o, l[i]) = IF i = Len(l) THEN NULL ELSE l[i + 1]
  BY AtIndex
<1>3. i # j
  BY <1>1
<1>4. i + 1 \in 1 .. Len(l) /\ i + 1 <= j /\ i # Len(l)
  BY <1>1, <1>2, <1>3
<1>5. Reached(l, o, g) = l[i + 1]
  BY <1>1, <1>2, <1>4 DEF Reached
<1> QED
  BY <1>1, <1>4, <1>5 DEF Comes

\* A loop at the element k has p ahead when p comes later.
LEMMA ComesAfter ==
    ASSUME NEW l, Once(l), NEW o, NEW f, f.at # Start, NEW p,
           NEW k \in 1 .. Len(l), f.at = l[k]
    PROVE  Comes(l, o, f, p) <=> \E j \in 1 .. Len(l) : j > k /\ l[j] = p
<1>1. /\ Len(l) \in Nat /\ Reached(l, o, f) = IF k = Len(l) THEN NULL ELSE l[k + 1]
      /\ \A i \in 1 .. Len(l) : l[i] \in Proc
  BY AtIndex DEF Reached
<1>2. ASSUME Comes(l, o, f, p) PROVE \E j \in 1 .. Len(l) : j > k /\ l[j] = p
  <2>1. PICK i \in 1 .. Len(l), j \in 1 .. Len(l) : i <= j /\ l[i] = Reached(l, o, f) /\ l[j] = p
    BY <1>2 DEF Comes
  <2>2. k # Len(l) /\ l[i] = l[k + 1]
    BY <1>1, <2>1, KernelAssumption
  <2>3. k + 1 \in 1 .. Len(l)
    BY <1>1, <2>2
  <2>4. i = k + 1
    BY <2>2, <2>3 DEF Once
  <2> QED
    BY <1>1, <2>1, <2>4
<1>3. ASSUME NEW j \in 1 .. Len(l), j > k, l[j] = p PROVE Comes(l, o, f, p)
  <2>1. k + 1 \in 1 .. Len(l) /\ k + 1 <= j /\ k # Len(l)
    BY <1>1, <1>3
  <2> QED
    BY <1>1, <1>3, <2>1 DEF Comes
<1> QED
  BY <1>2, <1>3

\* process_start puts its process behind the loop.
LEMMA ComesInsert ==
    ASSUME NEW l, Once(l), NEW o, NEW f, f.at \in Members(l), f.at # Start, NEW p, Comes(l, o, f, p),
           NEW q \in Proc, q \notin Members(l), NEW m, m = <<q>> \o l
    PROVE  Comes(m, o, f, p)
<1>1. /\ Once(m) /\ Len(l) \in Nat /\ Len(m) = Len(l) + 1 /\ \A i \in 1 .. Len(l) : m[i + 1] = l[i]
  BY AtHead
<1>2. PICK k \in 1 .. Len(l) : f.at = l[k]
  BY HasIndex
<1>3. PICK j \in 1 .. Len(l) : j > k /\ l[j] = p
  BY <1>2, ComesAfter
<1>4. /\ k + 1 \in 1 .. Len(m) /\ j + 1 \in 1 .. Len(m) /\ j + 1 > k + 1
      /\ m[k + 1] = f.at /\ m[j + 1] = p
  BY <1>1, <1>2, <1>3
<1> QED
  BY <1>1, <1>4, ComesAfter

\* exit_process takes another process than p off: p is still ahead.
LEMMA ComesCut ==
    ASSUME NEW l, Once(l), NEW o \in [Proc -> Proc \cup {NULL}], NEW f, f.at \in Members(l),
           f.at # Start, NEW p, Comes(l, o, f, p), NEW c \in 1 .. Len(l), p # l[c],
           NEW m, m = Cut(l, c), NEW n, n = [o EXCEPT ![l[c]] = After(l, o, l[c])]
    PROVE  Comes(m, n, f, p)
<1>1. /\ Once(m) /\ Len(l) \in Nat /\ Len(m) = Len(l) - 1
      /\ \A i \in 1 .. c - 1 : m[i] = l[i]
      /\ \A i \in c .. Len(l) - 1 : m[i] = l[i + 1]
      /\ Members(m) = Members(l) \ {l[c]}
  BY TakenOut
<1>2. PICK k \in 1 .. Len(l) : f.at = l[k]
  BY HasIndex
<1>3. PICK j \in 1 .. Len(l) : j > k /\ l[j] = p
  BY <1>2, ComesAfter
<1>4. \A x \in 1 .. Len(l) : x < c => x \in 1 .. Len(m) /\ m[x] = l[x]
  <2> SUFFICES ASSUME NEW x \in 1 .. Len(l), x < c PROVE x \in 1 .. Len(m) /\ m[x] = l[x]
    OBVIOUS
  <2>1. x \in 1 .. c - 1 /\ x \in 1 .. Len(m)
    BY <1>1
  <2> QED
    BY <1>1, <2>1
<1>5. \A x \in 1 .. Len(l) : x > c => x - 1 \in 1 .. Len(m) /\ m[x - 1] = l[x]
  <2> SUFFICES ASSUME NEW x \in 1 .. Len(l), x > c PROVE x - 1 \in 1 .. Len(m) /\ m[x - 1] = l[x]
    OBVIOUS
  <2>1. x - 1 \in c .. Len(l) - 1 /\ x - 1 \in 1 .. Len(m) /\ x - 1 + 1 = x
    BY <1>1
  <2>2. m[x - 1] = l[x - 1 + 1]
    BY <1>1, <2>1
  <2> QED
    BY <2>1, <2>2
<1>6. c \in Nat /\ k \in Nat /\ j \in Nat /\ j # c
  BY <1>1, <1>3
<1>7. CASE k = c
  <2>1. l[c] \in Proc /\ l[c] \notin Members(m) /\ f.at = l[c]
    BY <1>1, <1>2, <1>7, AtIndex
  <2>2. Reached(m, n, f) = After(l, o, l[c])
    BY <2>1 DEF Reached, After
  <2>3. c # Len(l) /\ After(l, o, l[c]) = l[c + 1]
    <3>1. c # Len(l)
      BY <1>1, <1>3, <1>6, <1>7
    <3>2. After(l, o, l[c]) = IF c = Len(l) THEN NULL ELSE l[c + 1]
      BY AtIndex
    <3> QED
      BY <3>1, <3>2
  <2>4. c + 1 \in 1 .. Len(l) /\ c + 1 > c /\ c + 1 - 1 = c /\ j > c
    BY <1>1, <1>3, <1>6, <1>7, <2>3
  <2>5. c \in 1 .. Len(m) /\ m[c] = l[c + 1]
    BY <1>1, <2>3, <2>4
  <2>6. j - 1 \in 1 .. Len(m) /\ m[j - 1] = p /\ c <= j - 1
    BY <1>3, <1>5, <1>6, <2>4
  <2> QED
    BY <2>2, <2>3, <2>5, <2>6 DEF Comes
<1>8. CASE k < c /\ j < c
  BY <1>1, <1>2, <1>3, <1>4, <1>8, ComesAfter
<1>9. CASE k < c /\ j > c
  <2>1. /\ k \in 1 .. Len(m) /\ m[k] = f.at /\ j - 1 \in 1 .. Len(m) /\ m[j - 1] = p
    BY <1>2, <1>3, <1>4, <1>5, <1>9
  <2>2. j - 1 > k
    BY <1>6, <1>9
  <2> QED
    BY <1>1, <2>1, <2>2, ComesAfter
<1>10. CASE k > c
  <2>1. /\ k - 1 \in 1 .. Len(m) /\ m[k - 1] = f.at /\ j - 1 \in 1 .. Len(m) /\ m[j - 1] = p
    BY <1>2, <1>3, <1>5, <1>6, <1>10
  <2>2. j - 1 > k - 1
    BY <1>3, <1>6
  <2> QED
    BY <1>1, <2>1, <2>2, ComesAfter
<1> QED
  BY <1>3, <1>6, <1>7, <1>8, <1>9, <1>10

\* While a loop of do_poll is not on top, the process it has reached is on the list.
LEMMA PollAtListed ==
    ASSUME StackInv, NEW i \in 1 .. Len(stack), i # Len(stack), stack[i].pc = "poll"
    PROVE  stack[i].at \in Members(process_list) /\ stack[i].at # Start
<1>1. /\ Shape(stack) /\ Marked(stack, state) /\ Listed(process_list, stack, state)
  BY DEF StackInv
<1>2. Len(stack) \in Nat /\ \A j \in 1 .. Len(stack) : Fits(stack, j)
  BY <1>1, LenProperties DEF Shape
<1>3. i + 1 \in 1 .. Len(stack) /\ i + 1 > 1 /\ i + 1 - 1 = i
  BY <1>2
<1>4. Calls(stack[i], stack[i + 1]) /\ Formed(stack[i + 1])
  BY <1>2, <1>3 DEF Fits
<1>5. stack[i].at # Start
  BY <1>4 DEF Calls, Loops
<1>6. stack[i].at \in Proc
  BY <1>4 DEF Calls, Formed, IsUser, IsThread
<1>7. stack[i].at \in Running(stack) \cup Leaving(stack)
  BY <1>3, <1>4, <1>6 DEF Running, Leaving, Calls
<1> QED
  BY <1>1, <1>5, <1>7, ActiveListed

\* While do_poll is on top it is the only one.
LEMMA OnePoll ==
    ASSUME NEW s, Shape(s), s # <<>>, s[Len(s)].pc = "poll", NEW i \in 1 .. Len(s), s[i].pc = "poll"
    PROVE  i = Len(s)
<1>1. Len(s) \in Nat /\ Len(s) # 0 /\ \A j \in 1 .. Len(s) : Fits(s, j)
  BY LenProperties, EmptySeq DEF Shape
<1>2. Len(s) \in 1 .. Len(s) /\ Len(s) <= 2
  BY <1>1 DEF Fits
<1>3. ASSUME i # Len(s) PROVE FALSE
  <2>1. i = 1 /\ Len(s) = 2
    <3>1. \A n \in Nat : \A k \in 1 .. n : n <= 2 /\ k # n => k = 1 /\ n = 2
      OBVIOUS
    <3> QED
      BY <1>1, <1>2, <1>3, <3>1
  <2>2. Calls(s[1], s[2])
    BY <1>1, <2>1 DEF Fits
  <2> QED
    BY <2>1, <2>2 DEF Calls, Loops
<1> QED
  BY <1>3

\* What PollStep does to the processes that wait.
LEMMA PollStepPolls ==
    ASSUME StackInv, PollInv, PollStep, NEW p \in wanted', ~poll_requested
    PROVE  \E i \in 1 .. Len(stack') :
              stack'[i].pc = "poll" /\ Comes(process_list', oldNext', stack'[i], p)
<1> DEFINE q == Cursor(Top)
           r == [Top EXCEPT !.at = q]
           st == [state EXCEPT ![q] = "RUNNING"]
<1>1. /\ KernelType /\ Shape(stack) /\ Listed(process_list, stack, state) /\ Once(process_list)
      /\ stack # <<>> /\ Top.pc = "poll" /\ CursorListed(process_list, oldNext, stack)
      /\ UNCHANGED <<process_list, oldNext>>
  BY DEF StackInv, PollStep, TopIs, Listed
<1>2. /\ Top = stack[Len(stack)] /\ Top \in Frames /\ Shape(Below) /\ Len(Below) \in Nat
  BY <1>1, TopFacts
<1>3. Members(process_list) \subseteq Proc /\ q \in Members(process_list) \cup {NULL}
  BY <1>1, <1>2, MembersType, InModel DEF CursorListed
<1>4. q # NULL => r \in Frames /\ r.pc = "poll" /\ r.at = q
  BY <1>1, <1>2, <1>3 DEF Frames
<1>5. \/ q = NULL /\ UNCHANGED wanted
      \/ /\ q # NULL /\ wanted' = wanted \ {q}
         /\ call_process(st, q, "POLL", Append(Below, r))
      \/ q # NULL /\ ~needspoll[q] /\ stack' = Append(Below, r) /\ UNCHANGED wanted
  BY DEF PollStep
<1>6. q = Reached(process_list, oldNext, Top)
  BY InModel
<1> HIDE DEF q, r, st
<1>7. p \in wanted
  BY <1>5
<1>8. PICK i \in 1 .. Len(stack) : stack[i].pc = "poll" /\ Comes(process_list, oldNext, stack[i], p)
  BY <1>7 DEF PollInv
<1>9. Comes(process_list, oldNext, Top, p)
  BY <1>1, <1>2, <1>8, OnePoll
<1>10. q # NULL
  <2>1. PICK k \in 1 .. Len(process_list) : process_list[k] = q
    BY <1>6, <1>9 DEF Comes
  <2>2. q \in Proc
    BY <1>1, <2>1, AtIndex
  <2> QED
    BY <2>2, KernelAssumption
<1>11. p # q
  BY <1>5, <1>7, <1>10 DEF PollInv
<1>12. Comes(process_list, oldNext, r, p)
  <2>1. r.at = Reached(process_list, oldNext, Top) /\ r.at # Start /\ r.at # p
    BY <1>3, <1>4, <1>6, <1>10, <1>11, KernelAssumption
  <2> QED
    BY <1>1, <1>9, <2>1, ComesStep
<1> DEFINE t == Append(Below, r)
<1>13. /\ t \in Seq(Frames) /\ Len(t) = Len(Below) + 1 /\ t[Len(t)] = r /\ Len(t) \in 1 .. Len(t)
  BY <1>2, <1>4, <1>10, PushSeq DEF Shape
<1>14. Extends(t, stack')
  <2>1. stack' = t \/ call_process(st, q, "POLL", t)
    BY <1>5, <1>10
  <2> HIDE DEF t
  <2>2. Extends(t, t)
    BY DEF Extends
  <2> QED
    BY <1>13, <2>1, <2>2, ExtendsCall
<1>15. Len(t) \in 1 .. Len(stack') /\ stack'[Len(t)] = r
  BY <1>13, <1>14 DEF Extends
<1> QED
  BY <1>1, <1>4, <1>10, <1>12, <1>15

\* A request for a poll stays until a loop of do_poll starts, and a new one sets it.
LEMMA RequestSteps ==
    ASSUME StackInv, Next
    PROVE  /\ wanted' \subseteq wanted \/ poll_requested'
           /\ poll_requested => \/ poll_requested'
                                \/ /\ UNCHANGED <<process_list, oldNext>>
                                   /\ \E i \in 1 .. Len(stack') : stack'[i] = PollLoop
<1>1. CASE ExitNotify \/ ExitUnlink \/ SynchReturn \/ BcastDeliver
  BY <1>1 DEF ExitNotify, ExitUnlink, SynchReturn, BcastDeliver
<1>2. CASE PollStep
  BY <1>2 DEF PollStep
<1>3. CASE BcastStep
  <2> DEFINE d == [[Top EXCEPT !.at = Cursor(Top)] EXCEPT !.pc = "deliver"]
  <2>1. UNCHANGED <<process_list, oldNext, wanted>>
    BY <1>3 DEF BcastStep
  <2>2. UNCHANGED poll_requested \/ stack' = Below \o <<d, PollLoop>>
    BY <1>3 DEF BcastStep
  <2>3. Below = <<>>
    <3>1. stack[Len(stack)] = Top /\ Below = Under(stack) /\ Top.pc = "bcast" /\ stack # <<>>
      BY <1>3 DEF Top, Below, Under, BcastStep, TopIs
    <3> QED
      BY <3>1, Pop DEF StackInv
  <2> HIDE DEF d
  <2>4. stack' = Below \o <<d, PollLoop>> => 2 \in 1 .. Len(stack') /\ stack'[2] = PollLoop
    BY <2>3
  <2> QED
    BY <2>1, <2>2, <2>4
<1>4. CASE BootStart
  BY <1>4 DEF BootStart, process_start
<1>5. CASE CallStart
  BY <1>5 DEF CallStart, process_start
<1>6. CASE BootDone \/ RunEvent \/ CallSynch \/ CallContext
  BY <1>6 DEF BootDone, RunEvent, CallSynch, CallContext
<1>7. CASE RunPoll
  <2>1. UNCHANGED <<process_list, oldNext, wanted>>
    BY <1>7 DEF RunPoll
  <2>2. UNCHANGED poll_requested \/ stack' = <<PollLoop>>
    BY <1>7 DEF RunPoll
  <2>3. stack' = <<PollLoop>> => 1 \in 1 .. Len(stack') /\ stack'[1] = PollLoop
    OBVIOUS
  <2> QED
    BY <2>1, <2>2, <2>3
<1>8. CASE CallPost
  BY <1>8 DEF CallPost, process_post
<1>9. CASE CallPoll
  BY <1>9 DEF CallPoll, process_poll
<1>10. CASE Interrupt
  BY <1>10 DEF Interrupt, process_poll
<1>11. CASE CallExit
  BY <1>11 DEF CallExit, exit_process
<1>12. CASE ThreadReturn
  BY <1>12 DEF ThreadReturn, exit_process
<1> QED
  BY <1>1, <1>2, <1>3, <1>4, <1>5, <1>6, <1>7, <1>8, <1>9, <1>10, <1>11, <1>12 DEF Next, Step

\* An activation below the top stays where it is, and so does every one at an interrupt.
LEMMA StackStays ==
    ASSUME StackInv, Next, NEW i \in 1 .. Len(stack), i # Len(stack) \/ Interrupt
    PROVE  i \in 1 .. Len(stack') /\ stack'[i] = stack[i]
<1>1. CASE Interrupt
  BY <1>1 DEF Interrupt
<1>2. CASE Step /\ i # Len(stack)
  <2>1. Shape(stack) /\ Len(stack) \in Nat
    BY LenProperties DEF StackInv, Shape
  <2>2. stack # <<>>
    BY <2>1
  <2>3. /\ Extends(Below, stack') /\ Len(Below) \in Nat /\ Len(stack) = Len(Below) + 1
        /\ \A j \in 1 .. Len(Below) : Below[j] = stack[j]
    BY <1>2, <2>1, <2>2, StackBelow, TopFacts
  <2>4. i \in 1 .. Len(Below)
    BY <1>2, <2>3
  <2> QED
    BY <2>3, <2>4 DEF Extends
<1> QED
  BY <1>1, <1>2 DEF Next

\* The list after ExitUnlink.
LEMMA UnlinkList ==
    ASSUME StackInv, ExitUnlink
    PROVE  \E c \in 1 .. Len(process_list) :
              /\ state[process_list[c]] = "NONE"
              /\ process_list' = Cut(process_list, c)
              /\ oldNext' = [oldNext EXCEPT ![process_list[c]] =
                                After(process_list, oldNext, process_list[c])]
              /\ stack # <<>> /\ ~Loops(Top)
<1> DEFINE p == Top.p
           k == Place(process_list, p)
<1>1. /\ Shape(stack) /\ Marked(stack, state) /\ Listed(process_list, stack, state)
  BY DEF StackInv
<1>2. stack # <<>> /\ Top.pc = "unlink" /\ Exits(Top) /\ ~Loops(Top)
  BY DEF ExitUnlink, TopIs, Exits, Loops
<1>3. p \in Leaving(stack)
  BY <1>1, <1>2, TopFacts
<1>4. p \in Members(process_list) /\ state[p] = "NONE"
  BY <1>1, <1>3, ActiveListed DEF Marked
<1>5. k \in 1 .. Len(process_list) /\ process_list[k] = p
  BY <1>1, <1>4, HasIndex DEF Listed
<1>6. /\ oldNext' = [oldNext EXCEPT ![p] = After(process_list, oldNext, p)]
      /\ process_list' = Cut(process_list, k)
  BY <1>4, InModel DEF ExitUnlink, Without, Cut
<1> QED
  BY <1>2, <1>4, <1>5, <1>6

LEMMA PollInvNext ==
    ASSUME StackInv, PollInv, BcastInv, Next
    PROVE  PollInv'
<1>1. /\ KernelType /\ Shape(stack) /\ Listed(process_list, stack, state) /\ Once(process_list)
      /\ oldNext \in [Proc -> Proc \cup {NULL}] /\ wanted \subseteq Proc
  BY DEF StackInv, KernelType, Listed
<1>2. \A p \in wanted' : state'[p] # "NONE" /\ needspoll'[p]
  BY WaitersLive
<1>3. ASSUME NEW p \in wanted'
      PROVE  \/ poll_requested'
             \/ \E i \in 1 .. Len(stack') :
                   stack'[i].pc = "poll" /\ Comes(process_list', oldNext', stack'[i], p)
  <2>1. CASE p \notin wanted
    BY <2>1, RequestSteps
  <2>2. CASE p \in wanted /\ poll_requested
    <3>1. p \in Members(process_list)
      BY <1>1, <2>2 DEF Listed, PollInv
    <3>2. PollLoop.pc = "poll" /\ PollLoop.at = Start
      BY DEF PollLoop, Frame
    <3>3. Comes(process_list, oldNext, PollLoop, p)
      BY <1>1, <3>1, <3>2, ComesStart
    <3> QED
      BY <2>2, <3>2, <3>3, RequestSteps
  <2>3. CASE p \in wanted /\ ~poll_requested
    <3>1. PICK i \in 1 .. Len(stack) :
             stack[i].pc = "poll" /\ Comes(process_list, oldNext, stack[i], p)
      BY <2>3 DEF PollInv
    <3>2. Len(stack) \in Nat /\ stack # <<>>
      BY <1>1, LenProperties DEF Shape
    <3>3. CASE i = Len(stack) /\ ~Interrupt
      <4>1. Loops(Top) /\ Top.pc = "poll"
        BY <3>1, <3>3 DEF Top, Loops
      <4>2. PollStep
        BY <3>2, <3>3, <4>1, LoopOnTop
      <4> QED
        BY <2>3, <4>2, PollStepPolls
    <3>4. CASE Interrupt
      <4>1. UNCHANGED <<process_list, oldNext>>
        BY <3>4 DEF Interrupt, process_poll
      <4> QED
        BY <3>1, <3>4, <4>1, StackStays
    <3>5. CASE i # Len(stack)
      <4>1. i \in 1 .. Len(stack') /\ stack'[i] = stack[i]
        BY <3>5, StackStays
      <4>2. stack[i].at \in Members(process_list) /\ stack[i].at # Start
        BY <3>1, <3>5, PollAtListed
      <4>3. CASE UNCHANGED <<process_list, oldNext>>
        BY <3>1, <4>1, <4>3
      <4>4. CASE ExitUnlink
        <5>1. PICK c \in 1 .. Len(process_list) :
                 /\ state[process_list[c]] = "NONE"
                 /\ process_list' = Cut(process_list, c)
                 /\ oldNext' = [oldNext EXCEPT ![process_list[c]] =
                                   After(process_list, oldNext, process_list[c])]
          BY <4>4, UnlinkList
        <5>2. p # process_list[c]
          BY <2>3, <5>1 DEF PollInv
        <5>3. Comes(process_list', oldNext', stack[i], p)
          BY <1>1, <3>1, <4>2, <5>1, <5>2, ComesCut
        <5> QED
          BY <3>1, <4>1, <5>3
      <4>5. ASSUME NEW q \in Proc, q \notin OnList, process_list' = <<q>> \o process_list,
                   UNCHANGED oldNext
            PROVE  Comes(process_list', oldNext', stack[i], p)
        <5>1. q \notin Members(process_list)
          BY <4>5, InModel
        <5>2. Comes(process_list', oldNext, stack[i], p)
          BY <1>1, <3>1, <4>2, <4>5, <5>1, ComesInsert
        <5> QED
          BY <4>5, <5>2
      <4> QED
        BY <3>1, <4>1, <4>3, <4>4, <4>5, ListSteps
    <3> QED
      BY <3>3, <3>4, <3>5
  <2> QED
    BY <2>1, <2>2, <2>3
<1> QED
  BY <1>2, <1>3 DEF PollInv

\* The least element of a set of numbers.
LEMMA LeastNumber ==
    ASSUME NEW K, K \subseteq Nat, K # {}
    PROVE  \E k \in K : \A i \in K : k <= i
<1> DEFINE Less == {pair \in Nat \X Nat : pair[1] < pair[2]}
<1>1. IsWellFoundedOn(Less, Nat)
  BY NatLessThanWellFounded DEF OpToRel
<1>2. PICK k \in K : \A i \in K : <<i, k>> \notin Less
  <2> HIDE DEF Less
  <2> QED
    BY <1>1, WFMin
<1>3. \A i \in K : ~(i < k)
  BY <1>2
<1> QED
  BY <1>2, <1>3

\* A closed set that contains the head of the list contains the list.
LEMMA WholeList ==
    ASSUME NEW l, Once(l), l # <<>>, NEW S, l[1] \in S,
           NEW o, \A x \in S \cap Members(l) : After(l, o, x) \in S \cup {NULL}
    PROVE  Members(l) \subseteq S
<1> DEFINE K == {k \in 1 .. Len(l) : l[k] \notin S}
<1>1. Len(l) \in Nat
  BY LenProperties DEF Once
<1>2. ASSUME K # {} PROVE FALSE
  <2>1. K \subseteq Nat
    BY <1>1
  <2>2. PICK k \in K : \A i \in K : k <= i
    BY <1>2, <2>1, LeastNumber
  <2>3. k \in 1 .. Len(l) /\ l[k] \notin S /\ k # 1
    BY <2>2
  <2>4. k - 1 \in 1 .. Len(l) /\ k - 1 + 1 = k /\ k - 1 # Len(l) /\ ~(k <= k - 1)
    BY <1>1, <2>3
  <2>5. l[k - 1] \in S
    BY <2>2, <2>4
  <2>6. /\ l[k - 1] \in Members(l)
        /\ After(l, o, l[k - 1]) = IF k - 1 = Len(l) THEN NULL ELSE l[k - 1 + 1]
    BY <2>4, AtIndex
  <2>7. After(l, o, l[k - 1]) = l[k] /\ l[k] \in Proc
    BY <2>3, <2>4, <2>6, AtIndex
  <2> QED
    BY <2>3, <2>5, <2>6, <2>7, KernelAssumption
<1> SUFFICES ASSUME NEW q \in Members(l) PROVE q \in S
  OBVIOUS
<1>3. PICK k \in 1 .. Len(l) : q = l[k]
  BY HasIndex
<1> QED
  BY <1>2, <1>3

\* The head of the list leads to all of it.
LEMMA HeadLeads ==
    ASSUME NEW l, Once(l), NEW o, NEW d \in Members(l)
    PROVE  l # <<>> /\ l[1] \in Proc /\ Leads(l, o, l[1], d)
<1>1. PICK k \in 1 .. Len(l) : d = l[k]
  BY HasIndex
<1>2. Len(l) \in Nat /\ 1 \in 1 .. Len(l)
  BY <1>1, AtIndex
<1>3. l # <<>> /\ l[1] \in Proc
  <2>1. l[1] \in Proc
    BY <1>2, AtIndex
  <2>2. l # <<>>
    BY <1>2
  <2> QED
    BY <2>1, <2>2
<1>4. ASSUME NEW S \in SUBSET Proc, l[1] \in S, Closed(l, o, S) PROVE d \in S
  BY <1>3, <1>4, WholeList DEF Closed
<1> QED
  BY <1>3, <1>4 DEF Leads

\* A step of the loop passes one process.
LEMMA LeadsStep ==
    ASSUME NEW l, NEW o, NEW x \in Proc, NEW d, Leads(l, o, x, d), d # x
    PROVE  After(l, o, x) # NULL /\ Leads(l, o, After(l, o, x), d)
<1>1. ASSUME After(l, o, x) = NULL PROVE FALSE
  <2>1. {x} \in SUBSET Proc /\ Closed(l, o, {x})
    BY <1>1 DEF Closed
  <2> QED
    BY <2>1 DEF Leads
<1>2. ASSUME NEW S \in SUBSET Proc, After(l, o, x) \in S, Closed(l, o, S) PROVE d \in S
  <2> DEFINE T == S \cup {x}
  <2>1. T \in SUBSET Proc /\ x \in T
    OBVIOUS
  <2>2. Closed(l, o, T)
    BY <1>2 DEF Closed
  <2> HIDE DEF T
  <2>3. d \in T
    BY <2>1, <2>2 DEF Leads
  <2> QED
    BY <2>3 DEF T
<1> QED
  BY <1>1, <1>2 DEF Leads

\* exit_process takes y = l[c] off the list; process_start puts y at its head.
TakesOut(l, o, c, y, m, n) ==
    /\ Once(l) /\ o \in [Proc -> Proc \cup {NULL}] /\ c \in 1 .. Len(l) /\ y = l[c]
    /\ m = Cut(l, c) /\ n = [o EXCEPT ![y] = After(l, o, y)]
PutsFirst(l, y, m) == Once(l) /\ y \in Proc /\ y \notin Members(l) /\ m = <<y>> \o l

\* The pointers when y leaves the list: what pointed to y points past it.
LEMMA AfterCut ==
    ASSUME NEW l, NEW o, NEW c, NEW y, NEW m, NEW n, TakesOut(l, o, c, y, m, n)
    PROVE  /\ y \in Proc /\ After(m, n, y) = After(l, o, y)
           /\ \A z \in Proc : \/ After(m, n, z) = After(l, o, z)
                              \/ After(l, o, z) = y /\ After(m, n, z) = After(l, o, y)
<1> USE DEF TakesOut
<1>1. /\ Once(m) /\ Len(l) \in Nat /\ Len(m) = Len(l) - 1
      /\ \A i \in 1 .. c - 1 : m[i] = l[i]
      /\ \A i \in c .. Len(l) - 1 : m[i] = l[i + 1]
      /\ Members(m) = Members(l) \ {l[c]}
  BY TakenOut
<1>2. y \in Proc /\ After(l, o, y) = IF c = Len(l) THEN NULL ELSE l[c + 1]
  BY AtIndex
<1>3. After(m, n, y) = After(l, o, y)
  <2>1. y \notin Members(m)
    BY <1>1
  <2>2. n[y] = After(l, o, y)
    BY <1>2
  <2> QED
    BY <2>1, <2>2 DEF After
<1>4. ASSUME NEW z \in Proc
      PROVE  \/ After(m, n, z) = After(l, o, z)
             \/ After(l, o, z) = y /\ After(m, n, z) = After(l, o, y)
  <2>1. CASE z = y
    BY <1>3, <2>1
  <2>2. CASE z # y /\ z \notin Members(l)
    <3>1. z \notin Members(m) /\ n[z] = o[z]
      BY <1>1, <2>2
    <3> QED
      BY <2>2, <3>1 DEF After
  <2>3. CASE z # y /\ z \in Members(l)
    <3>1. PICK k \in 1 .. Len(l) : z = l[k]
      BY <2>3, HasIndex
    <3>2. After(l, o, z) = IF k = Len(l) THEN NULL ELSE l[k + 1]
      BY <3>1, AtIndex
    <3>3. k # c /\ k \in Nat /\ c \in Nat
      BY <1>1, <2>3, <3>1
    <3>4. CASE k > c
      <4>1. k - 1 \in c .. Len(l) - 1 /\ k - 1 \in 1 .. Len(m) /\ k - 1 + 1 = k
        BY <1>1, <3>3, <3>4
      <4>2. m[k - 1] = z
        BY <1>1, <3>1, <4>1
      <4>3. After(m, n, m[k - 1]) = IF k - 1 = Len(m) THEN NULL ELSE m[k - 1 + 1]
        <5>1. Once(m) /\ k - 1 \in 1 .. Len(m)
          BY <1>1, <4>1
        <5> QED
          BY <5>1, AtIndex
      <4>4. CASE k = Len(l)
        <5>1. k - 1 = Len(m)
          BY <1>1, <4>4
        <5> QED
          BY <3>2, <4>2, <4>3, <4>4, <5>1
      <4>5. CASE k # Len(l)
        <5>1. k - 1 # Len(m) /\ k \in c .. Len(l) - 1
          <6>1. \A L \in Nat : \A a, b \in 1 .. L : a # L /\ a > b => a - 1 # L - 1 /\ a \in b .. L - 1
            OBVIOUS
          <6> QED
            BY <1>1, <3>4, <4>5, <6>1
        <5>2. m[k] = l[k + 1]
          BY <1>1, <5>1
        <5> QED
          BY <3>2, <4>1, <4>2, <4>3, <4>5, <5>1, <5>2
      <4> QED
        BY <4>4, <4>5
    <3>5. CASE k < c
      <4>1. k \in 1 .. c - 1 /\ k \in 1 .. Len(m) /\ k # Len(l) /\ k + 1 <= c /\ k + 1 \in Nat
        BY <1>1, <3>3, <3>5
      <4>2. m[k] = z
        BY <1>1, <3>1, <4>1
      <4>3. After(m, n, m[k]) = IF k = Len(m) THEN NULL ELSE m[k + 1]
        <5>1. Once(m) /\ k \in 1 .. Len(m)
          BY <1>1, <4>1
        <5> QED
          BY <5>1, AtIndex
      <4>4. CASE k + 1 = c /\ c = Len(l)
        <5>1. k = Len(m)
          BY <1>1, <3>3, <4>4
        <5> QED
          BY <1>2, <3>2, <4>1, <4>2, <4>3, <4>4, <5>1
      <4>5. CASE k + 1 = c /\ c # Len(l)
        <5>1. k # Len(m) /\ c \in c .. Len(l) - 1
          BY <1>1, <3>3, <4>5
        <5>2. m[k + 1] = l[c + 1]
          BY <1>1, <4>5, <5>1
        <5> QED
          BY <1>2, <3>2, <4>1, <4>2, <4>3, <4>5, <5>1, <5>2
      <4>6. CASE k + 1 # c
        <5>1. k # Len(m) /\ k + 1 \in 1 .. c - 1
          BY <1>1, <3>3, <4>1, <4>6
        <5>2. m[k + 1] = l[k + 1]
          BY <1>1, <5>1
        <5> QED
          BY <3>2, <4>1, <4>2, <4>3, <5>1, <5>2
      <4> QED
        BY <4>4, <4>5, <4>6
    <3> QED
      BY <3>3, <3>4, <3>5
  <2> QED
    BY <2>1, <2>2, <2>3
<1> QED
  BY <1>2, <1>3, <1>4

\* A broadcast loop still reaches d when exit_process takes another process off.
LEMMA DeliversCut ==
    ASSUME NEW l, NEW o, NEW c, NEW y, NEW m, NEW n, TakesOut(l, o, c, y, m, n),
           NEW f, f.at \in Proc, f.at # Start, NEW d, d # y, Delivers(l, o, f, d)
    PROVE  Delivers(m, n, f, d)
<1> DEFINE A(z) == After(l, o, z)
           B(z) == After(m, n, z)
           x == A(f.at)
           w == B(f.at)
<1>1. /\ y \in Proc /\ \A z \in Proc : B(z) = A(z) \/ (A(z) = y /\ B(z) = A(y))
  <2>1. /\ y \in Proc /\ After(m, n, y) = After(l, o, y)
        /\ \A z \in Proc : \/ After(m, n, z) = After(l, o, z)
                           \/ After(l, o, z) = y /\ After(m, n, z) = After(l, o, y)
    BY AfterCut
  <2> QED
    BY <2>1
<1>2. Reached(l, o, f) = x /\ Reached(m, n, f) = w
  BY DEF Reached
<1>3. w = x \/ (x = y /\ w = A(y))
  BY <1>1
<1>4. CASE f.pc = "deliver" /\ d = f.at
  BY <1>4 DEF Delivers
<1>5. CASE ~(f.pc = "deliver" /\ d = f.at)
  <2>1. f.pc \in {"bcast", "deliver"} /\ x # NULL /\ Leads(l, o, x, d)
    BY <1>2, <1>5 DEF Delivers
  <2>2. ASSUME w = NULL PROVE FALSE
    <3>1. x = y /\ A(y) = NULL
      BY <1>3, <2>1, <2>2
    <3>2. {y} \in SUBSET Proc /\ Closed(l, o, {y})
      BY <1>1, <3>1 DEF Closed
    <3> QED
      BY <2>1, <3>1, <3>2 DEF Leads
  <2>3. ASSUME NEW S \in SUBSET Proc, w \in S, Closed(m, n, S) PROVE d \in S
    <3>1. \A z \in S : B(z) \in S \cup {NULL}
      BY <2>3 DEF Closed
    <3>2. CASE A(y) \in S \cup {NULL}
      <4> DEFINE T == S \cup {y}
      <4>1. T \in SUBSET Proc /\ x \in T
        BY <1>1, <1>3, <2>3
      <4>2. \A z \in T : A(z) \in T \cup {NULL}
        BY <1>1, <3>1, <3>2
      <4>3. Closed(l, o, T)
        BY <4>2 DEF Closed
      <4> HIDE DEF T
      <4>4. d \in T
        BY <2>1, <4>1, <4>3 DEF Leads
      <4> QED
        BY <4>4 DEF T
    <3>3. CASE A(y) \notin S \cup {NULL}
      <4>1. x \in S
        BY <1>3, <2>3, <3>3
      <4>2. \A z \in S : A(z) \in S \cup {NULL}
        BY <1>1, <3>1, <3>3
      <4>3. Closed(l, o, S)
        BY <4>2 DEF Closed
      <4> QED
        BY <2>1, <4>1, <4>3 DEF Leads
    <3> QED
      BY <3>2, <3>3
  <2>4. Leads(m, n, w, d)
    BY <2>3 DEF Leads
  <2> QED
    BY <1>2, <2>1, <2>2, <2>4 DEF Delivers
<1> QED
  BY <1>4, <1>5

\* The pointers when y is put at the head.
LEMMA AfterInsert ==
    ASSUME NEW l, NEW y, NEW m, PutsFirst(l, y, m), l # <<>>, NEW o
    PROVE  After(m, o, y) = l[1] /\ \A z \in Proc : z # y => After(m, o, z) = After(l, o, z)
<1> USE DEF PutsFirst
<1>1. /\ Once(m) /\ Len(l) \in Nat /\ Len(m) = Len(l) + 1 /\ m[1] = y
      /\ \A i \in 1 .. Len(l) : m[i + 1] = l[i]
      /\ Members(m) = Members(l) \cup {y}
  BY AtHead
<1>2. Len(l) # 0
  BY EmptySeq DEF Once
<1>3. 1 \in 1 .. Len(m) /\ 1 # Len(m) /\ 1 \in 1 .. Len(l) /\ m[1 + 1] = l[1]
  BY <1>1, <1>2
<1>4. After(m, o, y) = l[1]
  <2>1. After(m, o, m[1]) = IF 1 = Len(m) THEN NULL ELSE m[1 + 1]
    <3>1. Once(m) /\ 1 \in 1 .. Len(m)
      BY <1>1, <1>3
    <3> QED
      BY <3>1, AtIndex
  <2> QED
    BY <1>1, <1>3, <2>1
<1>5. ASSUME NEW z \in Proc, z # y PROVE After(m, o, z) = After(l, o, z)
  <2>1. CASE z \notin Members(l)
    BY <1>1, <1>5, <2>1 DEF After
  <2>2. CASE z \in Members(l)
    <3>1. PICK k \in 1 .. Len(l) : z = l[k]
      BY <2>2, HasIndex
    <3>2. After(l, o, l[k]) = IF k = Len(l) THEN NULL ELSE l[k + 1]
      BY AtIndex
    <3>3. k + 1 \in 1 .. Len(m) /\ m[k + 1] = l[k] /\ (k = Len(l) <=> k + 1 = Len(m))
      BY <1>1
    <3>4. After(m, o, m[k + 1]) = IF k + 1 = Len(m) THEN NULL ELSE m[k + 1 + 1]
      <4>1. Once(m) /\ k + 1 \in 1 .. Len(m)
        BY <1>1, <3>3
      <4> QED
        BY <4>1, AtIndex
    <3>5. CASE k = Len(l)
      BY <3>1, <3>2, <3>3, <3>4, <3>5
    <3>6. CASE k # Len(l)
      <4>1. k + 1 \in 1 .. Len(l)
        BY <1>1, <3>6
      <4>2. m[k + 1 + 1] = l[k + 1]
        BY <1>1, <4>1
      <4> QED
        BY <3>1, <3>2, <3>3, <3>4, <3>6, <4>2
    <3> QED
      BY <3>5, <3>6
  <2> QED
    BY <2>1, <2>2
<1> QED
  BY <1>4, <1>5

\* A broadcast loop still reaches d when a process starts, even the one it has just called.
LEMMA DeliversInsert ==
    ASSUME NEW l, NEW y, NEW m, PutsFirst(l, y, m), NEW o,
           NEW f, f.at \in Proc, f.at # Start, NEW d \in Members(l), Delivers(l, o, f, d)
    PROVE  Delivers(m, o, f, d)
<1> DEFINE A(z) == After(l, o, z)
           B(z) == After(m, o, z)
           x == A(f.at)
           w == B(f.at)
<1>0. Once(l) /\ y \in Proc /\ y \notin Members(l)
  BY DEF PutsFirst
<1>1. l # <<>> /\ l[1] \in Proc
  BY <1>0, HeadLeads
<1>2. B(y) = l[1] /\ \A z \in Proc : z # y => B(z) = A(z)
  <2>1. After(m, o, y) = l[1] /\ \A z \in Proc : z # y => After(m, o, z) = After(l, o, z)
    BY <1>1, AfterInsert
  <2> QED
    BY <2>1
<1>3. Reached(l, o, f) = x /\ Reached(m, o, f) = w
  BY DEF Reached
<1>4. CASE f.pc = "deliver" /\ d = f.at
  BY <1>4 DEF Delivers
<1>5. CASE ~(f.pc = "deliver" /\ d = f.at)
  <2>1. f.pc \in {"bcast", "deliver"} /\ x # NULL /\ Leads(l, o, x, d)
    BY <1>3, <1>5 DEF Delivers
  <2>2. w # NULL
    BY <1>1, <1>2, <2>1, KernelAssumption
  <2>3. ASSUME NEW S \in SUBSET Proc, w \in S, Closed(m, o, S) PROVE d \in S
    <3>1. \A z \in S : B(z) \in S \cup {NULL}
      BY <2>3 DEF Closed
    <3>2. CASE l[1] \in S
      <4>1. \A z \in S \cap Members(l) : A(z) \in S \cup {NULL}
        BY <1>0, <1>2, <3>1, MembersType
      <4>2. Members(l) \subseteq S
        BY <1>0, <1>1, <3>2, <4>1, WholeList
      <4> QED
        BY <4>2
    <3>3. CASE l[1] \notin S
      <4>1. y \notin S
        BY <1>1, <1>2, <3>1, <3>3, KernelAssumption
      <4>2. f.at # y
        BY <1>2, <2>3, <3>3
      <4>3. x \in S
        BY <1>2, <2>3, <4>2
      <4>4. \A z \in S : A(z) \in S \cup {NULL}
        BY <1>2, <3>1, <4>1
      <4>5. Closed(l, o, S)
        BY <4>4 DEF Closed
      <4> QED
        BY <2>1, <4>3, <4>5 DEF Leads
    <3> QED
      BY <3>2, <3>3
  <2>4. Leads(m, o, w, d)
    BY <2>3 DEF Leads
  <2> QED
    BY <1>3, <2>1, <2>2, <2>4 DEF Delivers
<1> QED
  BY <1>4, <1>5

\* A broadcast that begins has the whole list ahead.
LEMMA DueSteps ==
    ASSUME Next, NEW d \in due', d \notin due
    PROVE  /\ d \in Members(process_list) /\ UNCHANGED <<process_list, oldNext>>
           /\ stack' # <<>> /\ stack'[1].pc = "bcast" /\ stack'[1].at = Start
<1>1. CASE RunEvent
  <2>1. PICK ev : stack' = <<BcastLoop(ev)>> /\ due' = OnList
    BY <1>1 DEF RunEvent
  <2>2. stack' # <<>> /\ stack'[1].pc = "bcast" /\ stack'[1].at = Start
    BY <2>1 DEF BcastLoop, Frame
  <2> QED
    BY <1>1, <2>1, <2>2, InModel DEF RunEvent
<1>2. CASE ExitNotify \/ ExitUnlink \/ SynchReturn \/ PollStep \/ BcastStep \/ BcastDeliver
  BY <1>2 DEF ExitNotify, ExitUnlink, SynchReturn, PollStep, BcastStep, BcastDeliver
<1>3. CASE BootStart \/ BootDone \/ RunPoll \/ Interrupt
  BY <1>3 DEF BootStart, BootDone, RunPoll, Interrupt, process_start, process_poll
<1>4. CASE CallPost \/ CallPoll \/ CallSynch \/ CallStart \/ CallContext
  BY <1>4 DEF CallPost, CallPoll, CallSynch, CallStart, CallContext, process_start,
              process_poll, process_post
<1>5. CASE CallExit \/ ThreadReturn
  BY <1>5 DEF CallExit, ThreadReturn, exit_process
<1> QED
  BY <1>1, <1>2, <1>3, <1>4, <1>5 DEF Next, Step

\* The loop has reached q, and has called it unless it is to be called still.
LEMMA DeliversOn ==
    ASSUME NEW l, NEW o, NEW q \in Proc, NEW d, Leads(l, o, q, d), NEW g, g.at = q,
           g.pc = "deliver" \/ (g.pc = "bcast" /\ d # q)
    PROVE  Delivers(l, o, g, d)
<1>1. CASE d = q
  BY <1>1 DEF Delivers
<1>2. CASE d # q
  <2>1. After(l, o, q) # NULL /\ Leads(l, o, After(l, o, q), d)
    BY <1>2, LeadsStep
  <2>2. Reached(l, o, g) = After(l, o, q)
    BY KernelAssumption DEF Reached
  <2> QED
    BY <2>1, <2>2 DEF Delivers
<1> QED
  BY <1>1, <1>2

\* What call_process leaves at the bottom of a stack of one activation.
LEMMA CallBottom ==
    ASSUME NEW st, NEW p, NEW ev, NEW g, call_process(st, p, ev, <<g>>)
    PROVE  stack' # <<>> /\ stack'[1] = g
<1>1. CASE stack' = <<g>>
  BY <1>1
<1>2. CASE stack' = Append(<<g>>, Thread(p, ev))
  <2>1. <<g>> \in Seq({g}) /\ Len(<<g>>) = 1 /\ <<g>>[1] = g
    OBVIOUS
  <2>2. Len(stack') = 2 /\ stack'[1] = g
    BY <1>2, <2>1, AppendProperties
  <2> QED
    BY <2>2
<1> QED
  BY <1>1, <1>2 DEF call_process

\* The loop of a broadcast passes a process only after calling it.
LEMMA BcastOnTop ==
    ASSUME StackInv, BcastInv, Len(stack) = 1, NEW d \in due, d \in due',
           BcastStep \/ BcastDeliver
    PROVE  stack' # <<>> /\ Delivers(process_list, oldNext, stack'[1], d)
<1>1. /\ Shape(stack) /\ Once(process_list) /\ oldNext \in [Proc -> Proc \cup {NULL}]
      /\ stack # <<>> /\ Top = stack[1] /\ Delivers(process_list, oldNext, Top, d)
  BY DEF StackInv, KernelType, Listed, BcastInv, Top
<1>2. Below = <<>> /\ Top \in Frames /\ Formed(Top)
  <2>1. Len(Below) = 0 /\ Below \in Seq(Frames) /\ Top \in Frames /\ Formed(Top)
    BY <1>1, TopFacts DEF Shape
  <2> QED
    BY <2>1, EmptySeq
<1>3. CASE BcastStep
  <2> DEFINE q == Cursor(Top)
             r == [Top EXCEPT !.at = q]
             v == [r EXCEPT !.pc = "deliver"]
  <2>1. Top.pc = "bcast" /\ q = Reached(process_list, oldNext, Top)
    BY <1>3, InModel DEF BcastStep, TopIs
  <2>2. q # NULL /\ Leads(process_list, oldNext, q, d)
    BY <1>1, <2>1 DEF Delivers
  <2>3. q \in Proc
    <3>1. Top.at \in Proc \cup {Start}
      BY <1>2, <2>1, FrameKinds DEF Formed, Loops
    <3> QED
      BY <1>1, <2>1, <2>2, <3>1, ReachedType
  <2>4. r.at = q /\ r.pc = "bcast" /\ v.at = q /\ v.pc = "deliver"
    BY <1>2, <2>1 DEF Frames
  <2>5. CASE poll_requested
    <3>1. stack' = <<>> \o <<v, PollLoop>>
      BY <1>2, <1>3, <2>2, <2>5 DEF BcastStep
    <3> HIDE DEF q, r, v
    <3>2. stack' = <<v, PollLoop>>
      BY <3>1
    <3>3. stack' # <<>> /\ stack'[1] = v
      BY <3>2
    <3> QED
      BY <2>2, <2>3, <2>4, <3>3, DeliversOn
  <2>6. CASE ~poll_requested
    <3>1. call_process(state, q, Top.ev, Append(<<>>, r)) /\ due' = due \ {q}
      BY <1>2, <1>3, <2>2, <2>6 DEF BcastStep
    <3> HIDE DEF q, r, v
    <3>2. Append(<<>>, r) = <<r>>
      OBVIOUS
    <3>3. call_process(state, q, Top.ev, <<r>>)
      BY <3>1, <3>2
    <3>4. stack' # <<>> /\ stack'[1] = r
      BY <3>3, CallBottom
    <3> QED
      BY <2>2, <2>3, <2>4, <3>1, <3>4, DeliversOn
  <2> QED
    BY <2>5, <2>6
<1>4. CASE BcastDeliver
  <2> DEFINE r == [Top EXCEPT !.pc = "bcast"]
  <2>1. Top.pc = "deliver" /\ due' = due \ {Top.at}
    BY <1>4 DEF BcastDeliver, TopIs
  <2>2. r.pc = "bcast" /\ r.at = Top.at
    BY <1>2 DEF Frames
  <2>3. call_process(state, Top.at, Top.ev, Append(<<>>, r))
    BY <1>2, <1>4 DEF BcastDeliver
  <2> HIDE DEF r
  <2>4. Append(<<>>, r) = <<r>>
    OBVIOUS
  <2>5. call_process(state, Top.at, Top.ev, <<r>>)
    BY <2>3, <2>4
  <2>6. stack' # <<>> /\ stack'[1] = r
    BY <2>5, CallBottom
  <2> QED
    BY <1>1, <2>1, <2>2, <2>6 DEF Delivers, Reached
<1> QED
  BY <1>3, <1>4

\* While something runs above it, the loop keeps its way to d whatever starts and exits.
LEMMA BcastUnder ==
    ASSUME StackInv, BcastInv, Next, NEW d \in due, 1 # Len(stack)
    PROVE  stack' # <<>> /\ Delivers(process_list', oldNext', stack'[1], d)
<1>1. /\ Shape(stack) /\ Listed(process_list, stack, state) /\ Once(process_list)
      /\ oldNext \in [Proc -> Proc \cup {NULL}] /\ d \in Proc /\ state[d] # "NONE"
      /\ stack # <<>> /\ Delivers(process_list, oldNext, stack[1], d)
  BY DEF StackInv, KernelType, Listed, BcastInv
<1>2. stack \in Seq(Frames) /\ Len(stack) \in Nat /\ Len(stack) # 0
  BY <1>1, LenProperties, EmptySeq DEF Shape
<1>3. 1 \in 1 .. Len(stack) /\ 2 \in 1 .. Len(stack) /\ 2 > 1 /\ 2 - 1 = 1
  <2>1. \A n \in Nat : n # 0 /\ 1 # n => 1 \in 1 .. n /\ 2 \in 1 .. n
    OBVIOUS
  <2>2. Len(stack) \in Nat /\ Len(stack) # 0 /\ 1 # Len(stack)
    BY <1>2
  <2>3. 1 \in 1 .. Len(stack) /\ 2 \in 1 .. Len(stack)
    BY <2>1, <2>2
  <2>4. 2 > 1 /\ 2 - 1 = 1
    OBVIOUS
  <2> QED
    BY <2>3, <2>4
<1>4. stack[1] \in Frames /\ Fits(stack, 1) /\ Fits(stack, 2)
  <2>1. stack[1] \in Frames
    BY <1>2, <1>3, ElementOfSeq
  <2> QED
    BY <1>1, <1>3, <2>1 DEF Shape
<1>5. Formed(stack[1]) /\ Calls(stack[1], stack[2]) /\ Loops(stack[1])
  BY <1>1, <1>3, <1>4 DEF Fits, Delivers, Loops
<1>6. stack[1].at # Start /\ stack[1].at \in Proc
  <2>1. stack[1].at # Start /\ stack[1].at # NULL
    BY <1>5 DEF Calls, Formed
  <2> QED
    BY <1>4, <2>1, FrameKinds
<1>7. 1 \in 1 .. Len(stack') /\ stack'[1] = stack[1]
  BY <1>3, StackStays
<1>8. stack' # <<>>
  BY <1>7
<1>9. Delivers(process_list', oldNext', stack[1], d)
  <2>1. CASE UNCHANGED <<process_list, oldNext>>
    BY <1>1, <2>1
  <2>2. CASE ExitUnlink
    <3>1. PICK c \in 1 .. Len(process_list) :
             /\ state[process_list[c]] = "NONE"
             /\ process_list' = Cut(process_list, c)
             /\ oldNext' = [oldNext EXCEPT ![process_list[c]] =
                               After(process_list, oldNext, process_list[c])]
      BY <2>2, UnlinkList
    <3>2. d # process_list[c]
      BY <1>1, <3>1
    <3>3. TakesOut(process_list, oldNext, c, process_list[c], process_list', oldNext')
      BY <1>1, <3>1 DEF TakesOut
    <3> QED
      BY <1>1, <1>6, <3>2, <3>3, DeliversCut
  <2>3. ASSUME NEW q \in Proc, q \notin OnList, process_list' = <<q>> \o process_list,
               UNCHANGED oldNext
        PROVE  Delivers(process_list', oldNext', stack[1], d)
    <3>1. PutsFirst(process_list, q, process_list')
      BY <1>1, <2>3, InModel DEF PutsFirst
    <3>2. d \in Members(process_list)
      BY <1>1 DEF Listed
    <3>3. Delivers(process_list', oldNext, stack[1], d)
      BY <1>1, <1>6, <3>1, <3>2, DeliversInsert
    <3> QED
      BY <2>3, <3>3
  <2> QED
    BY <2>1, <2>2, <2>3, ListSteps
<1> QED
  BY <1>7, <1>8, <1>9

LEMMA BcastInvNext ==
    ASSUME StackInv, PollInv, BcastInv, Next
    PROVE  BcastInv'
<1>1. \A d \in due' : state'[d] # "NONE"
  BY WaitersLive
<1>2. ASSUME NEW d \in due'
      PROVE  stack' # <<>> /\ Delivers(process_list', oldNext', stack'[1], d)
  <2>1. CASE d \notin due
    <3>1. /\ d \in Members(process_list) /\ UNCHANGED <<process_list, oldNext>>
          /\ stack' # <<>> /\ stack'[1].pc = "bcast" /\ stack'[1].at = Start
      BY <2>1, DueSteps
    <3>2. Once(process_list)
      BY DEF StackInv, Listed
    <3>3. /\ process_list # <<>> /\ process_list[1] \in Proc
          /\ Leads(process_list, oldNext, process_list[1], d)
      BY <3>1, <3>2, HeadLeads
    <3>4. Reached(process_list, oldNext, stack'[1]) = process_list[1]
      BY <3>1, <3>3 DEF Reached
    <3> QED
      BY <3>1, <3>3, <3>4, KernelAssumption DEF Delivers
  <2>2. CASE d \in due /\ 1 = Len(stack)
    <3>1. stack # <<>> /\ Top = stack[1] /\ Delivers(process_list, oldNext, Top, d)
      BY <2>2 DEF BcastInv, Top
    <3>2. Loops(Top) /\ Top.pc # "poll"
      BY <3>1 DEF Delivers, Loops
    <3>3. CASE Interrupt
      <4>1. UNCHANGED <<process_list, oldNext, stack>>
        BY <3>3 DEF Interrupt, process_poll
      <4> QED
        BY <3>1, <4>1
    <3>4. CASE BcastStep \/ BcastDeliver
      <4>1. UNCHANGED <<process_list, oldNext>>
        BY <3>4 DEF BcastStep, BcastDeliver
      <4> QED
        BY <2>2, <3>4, <4>1, BcastOnTop
    <3> QED
      BY <3>1, <3>2, <3>3, <3>4, LoopOnTop
  <2>3. CASE d \in due /\ 1 # Len(stack)
    BY <2>3, BcastUnder
  <2> QED
    BY <2>1, <2>2, <2>3
<1> QED
  BY <1>1, <1>2 DEF BcastInv

LEMMA KernelInvariant == Spec => [](torn \/ (StackInv /\ PollInv /\ BcastInv))
<1>1. process_init => StackInv /\ PollInv /\ BcastInv
  BY StackInvInit DEF process_init, PollInv, BcastInv
<1>2. ASSUME torn \/ (StackInv /\ PollInv /\ BcastInv), [Next]_vars
      PROVE  torn' \/ (StackInv /\ PollInv /\ BcastInv)'
  <2>1. CASE torn
    BY <1>2, <2>1, TornStays
  <2>2. CASE ~torn' /\ Next
    BY <1>2, <2>2, TornStays, StackInvNext, PollInvNext, BcastInvNext
  <2>3. CASE ~torn' /\ UNCHANGED vars
    <3>1. StackInv /\ PollInv /\ BcastInv /\ StackInv'
      BY <1>2, <2>3, TornStays, StackInvNext
    <3>2. PollInv' /\ BcastInv'
      BY <2>3, <3>1 DEF PollInv, BcastInv, vars
    <3> QED
      BY <3>1, <3>2
  <2> QED
    BY <1>2, <2>1, <2>2, <2>3
<1> QED
  BY <1>1, <1>2, PTL DEF Spec

\* A process_poll for a process that runs, called from an interrupt at any moment, is not
\* lost: do_poll will be called, or is in its loop and has the process ahead of it.
THEOREM KernelPollNotLost == Spec => []PollNotLost
<1>1. ASSUME StackInv, PollInv PROVE PollNotLost
  <2>1. /\ Once(process_list) /\ stack \in Seq(Frames) /\ wanted \subseteq Proc
        /\ Listed(process_list, stack, state)
    BY <1>1 DEF StackInv, KernelType, Shape, Listed
  <2>2. DOMAIN stack = 1 .. Len(stack)
    BY <2>1, LenProperties
  <2>3. ASSUME NEW p \in wanted PROVE needspoll[p] /\ p \in OnList
    BY <1>1, <2>1, <2>3, InModel DEF PollInv, Listed
  <2>4. ASSUME NEW f, NEW p, Comes(process_list, oldNext, f, p) PROVE p \in Ahead(f)
    <3>1. PICK i, j \in 1 .. Len(process_list) :
             /\ i <= j /\ process_list[i] = Reached(process_list, oldNext, f)
             /\ process_list[j] = p
      BY <2>4 DEF Comes
    <3>2. process_list[i] \in Members(process_list) /\ Place(process_list, process_list[i]) = i
      BY <2>1, AtIndex
    <3>3. process_list[j] \in Members(process_list) /\ Place(process_list, process_list[j]) = j
      BY <2>1, AtIndex
    <3>4. i \in Nat /\ j \in Nat /\ j >= i
      BY <3>1
    <3>5. Cursor(f) = process_list[i] /\ Position(Cursor(f)) = i /\ Position(p) = j
      BY <3>1, <3>2, <3>3, InModel
    <3> QED
      BY <3>1, <3>2, <3>3, <3>4, <3>5, InModel DEF Ahead
  <2>5. ASSUME NEW p \in wanted, ~poll_requested
        PROVE  \E i \in DOMAIN stack : stack[i].pc = "poll" /\ p \in Ahead(stack[i])
    <3>1. PICK i \in 1 .. Len(stack) :
             stack[i].pc = "poll" /\ Comes(process_list, oldNext, stack[i], p)
      BY <1>1, <2>5 DEF PollInv
    <3> QED
      BY <2>2, <2>4, <3>1
  <2> QED
    BY <2>3, <2>5 DEF PollNotLost
<1>2. torn => PollNotLost
  BY DEF PollNotLost
<1> QED
  BY <1>1, <1>2, KernelInvariant, PTL

\* A broadcast does not end while a process that was there when it began, and has not exited,
\* has not been called, as long as no process has been ended in the middle of a call.
THEOREM KernelBroadcastReachesAll == Spec => [](torn \/ BroadcastReachesAll)
<1>1. ASSUME StackInv, BcastInv PROVE BroadcastReachesAll
  <2>1. SUFFICES ASSUME NEW d \in due
                 PROVE  \E i \in DOMAIN stack : stack[i].pc \in {"bcast", "deliver"}
    BY DEF BroadcastReachesAll
  <2>2. stack # <<>> /\ stack[1].pc \in {"bcast", "deliver"}
    BY <1>1 DEF BcastInv, Delivers
  <2>3. stack \in Seq(Frames)
    BY <1>1 DEF StackInv, Shape
  <2>4. 1 \in DOMAIN stack
    BY <2>2, <2>3, LenProperties, EmptySeq
  <2> QED
    BY <2>2, <2>4
<1> QED
  BY <1>1, KernelInvariant, PTL
=============================================================================
