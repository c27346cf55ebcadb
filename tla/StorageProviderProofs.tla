----------------------- MODULE StorageProviderProofs -----------------------
(***************************************************************************)
(* Proofs about StorageProvider, for every number of goroutines, volumes   *)
(* and slots.                                                              *)
(*                                                                         *)
(* The invariant follows the one goroutine whose compare-and-swap took the *)
(* flag down: until it has called onStateChange nobody has, and nobody     *)
(* else is going to.  The bound of the reserve counts what the admitted    *)
(* chunk requests may still write.                                         *)
(***************************************************************************)
EXTENDS StorageProvider, FiniteSetTheorems, TLAPS

GateInv ==
  /\ available => told = 0
  /\ \A j \in Jobs : At(j, "notify") =>
       /\ ~available /\ told = 0
       /\ \A i \in Jobs : At(i, "notify") => i = j
  /\ \A j \in Jobs : job[j] # Idle => job[j].on = Ours

IInv == TypeOK /\ GateInv

USE StorageProviderAssumption

-----------------------------------------------------------------------------

LEMMA Pcs ==
  ASSUME TypeOK, NEW j \in Jobs
  PROVE  /\ Idle.pc = "idle" /\ Idle \notin Running
         /\ job[j].pc # "idle" => job[j] \in Running
BY DEF TypeOK, Running, Idle

\* A goroutine starts, moves on, or ends.
LEMMA Moves ==
  ASSUME TypeOK, NEW j \in Jobs,
         NEW pc \in {"ask", "load", "open", "operate", "finish", "mark", "notify", "write"}
  PROVE  /\ Goto(j, pc) /\ job[j].pc # "idle" =>
              /\ job' \in [Jobs -> Running \cup {Idle}]
              /\ job'[j].pc = pc /\ job'[j] # Idle /\ job'[j].on = job[j].on
              /\ \A i \in Jobs \ {j} : job'[i] = job[i]
         /\ End(j) =>
              /\ job' \in [Jobs -> Running \cup {Idle}]
              /\ job'[j] = Idle /\ job'[j].pc = "idle"
              /\ \A i \in Jobs \ {j} : job'[i] = job[i]
<1>1. ASSUME Goto(j, pc), job[j].pc # "idle"
      PROVE  /\ job' \in [Jobs -> Running \cup {Idle}]
             /\ job'[j].pc = pc /\ job'[j] # Idle /\ job'[j].on = job[j].on
             /\ \A i \in Jobs \ {j} : job'[i] = job[i]
  <2> DEFINE x == [job[j] EXCEPT !.pc = pc]
  <2>1. job[j] \in Running
    BY <1>1, Pcs
  <2>2. x \in Running /\ x.pc = pc /\ x.on = job[j].on
    BY <2>1 DEF Running
  <2>3. job' = [job EXCEPT ![j] = x]
    BY <1>1 DEF Goto, TypeOK
  <2> HIDE DEF x
  <2> QED  BY <2>2, <2>3, Pcs DEF TypeOK
<1>2. ASSUME End(j)
      PROVE  /\ job' \in [Jobs -> Running \cup {Idle}]
             /\ job'[j] = Idle /\ job'[j].pc = "idle"
             /\ \A i \in Jobs \ {j} : job'[i] = job[i]
  BY <1>2, Pcs DEF End, TypeOK
<1> QED  BY <1>1, <1>2

LEMMA Starts ==
  ASSUME TypeOK, NEW j \in Jobs, NEW kind \in Kinds, NEW pc \in {"ask", "load"},
         NEW left \in 0 .. MaxChunk, Start(j, kind, pc, left)
  PROVE  /\ job' \in [Jobs -> Running \cup {Idle}]
         /\ job[j].pc = "idle" /\ job'[j].pc = pc /\ job'[j].on = Ours
         /\ \A i \in Jobs \ {j} : job'[i] = job[i]
         /\ UNCHANGED <<mounted, available, told, content, free, misled>>
<1> DEFINE x == [pc |-> pc, kind |-> kind, on |-> Ours, left |-> left]
<1>1. x \in Running /\ x.pc = pc /\ x.on = Ours
  BY DEF Running
<1>2. job' = [job EXCEPT ![j] = x] /\ job[j] = Idle
  BY DEF Start
<1> HIDE DEF x
<1>3. job[j].pc = "idle"
  BY <1>2, Pcs
<1>4. UNCHANGED <<mounted, available, told, content, free, misled>>
  BY DEF Start
<1> QED  BY <1>1, <1>2, <1>3, <1>4 DEF TypeOK

\* What the invariant needs of an action of one goroutine.
LEMMA Kept ==
  ASSUME IInv, NEW j \in Jobs, \A i \in Jobs \ {j} : job'[i] = job[i],
         job'[j] # Idle => job'[j].on = Ours, job'[j].pc # "notify",
         UNCHANGED <<available, told>>
  PROVE  GateInv'
BY DEF IInv, GateInv, At

Admitted == {j \in Jobs : job[j].pc \in {"open", "operate", "write"}}
GateVars == <<available, told, Admitted, content>>

\* A goroutine that stays outside, or inside, of the gate; and one that leaves.
LEMMA Outside ==
  ASSUME NEW j \in Jobs, \A i \in Jobs \ {j} : job'[i] = job[i],
         job[j].pc \in {"open", "operate", "write"} <=> job'[j].pc \in {"open", "operate", "write"},
         UNCHANGED <<available, told, content>>
  PROVE  UNCHANGED GateVars
<1>1. Admitted' = Admitted
  BY DEF Admitted
<1> QED  BY <1>1 DEF GateVars

LEMMA Leaves ==
  ASSUME NEW j \in Jobs, \A i \in Jobs \ {j} : job'[i] = job[i],
         job'[j].pc \notin {"open", "operate", "write"},
         UNCHANGED <<available, told, content>>
  PROVE  [Gate!Next]_GateVars
<1>1. Admitted' = Admitted \ {j}
  BY DEF Admitted
<1>2. Gate!Leave(j)
  BY <1>1 DEF Gate!Leave, Admitted
<1> QED  BY <1>2 DEF Gate!Next

LEMMA InitHolds == Init => IInv
<1> SUFFICES ASSUME Init PROVE IInv
  OBVIOUS
<1>1. job \in [Jobs -> Running \cup {Idle}] /\ \A j \in Jobs : job[j] = Idle /\ ~At(j, "notify")
  BY DEF Init, Idle, At
<1>2. content \in [Volumes -> 0 .. 1] /\ told \in Nat /\ free \in 0 .. Space
  BY DEF Init
<1>3. mounted \in Volumes \cup {Nothing} /\ available \in BOOLEAN /\ misled \in BOOLEAN
  BY DEF Init
<1>4. TypeOK
  BY <1>1, <1>2, <1>3 DEF TypeOK
<1>5. GateInv
  BY <1>1 DEF Init, GateInv
<1> QED  BY <1>4, <1>5 DEF IInv

-----------------------------------------------------------------------------

LEMMA JobStep ==
  ASSUME IInv, NEW j \in Jobs, Job(j)
  PROVE  IInv' /\ [Gate!Next]_GateVars
<1>0. TypeOK /\ GateInv /\ (job[j] # Idle => job[j].on = Ours)
  BY DEF IInv, GateInv
<1>1. ASSUME BeginChange(j) \/ BeginPart(j) \/ BeginChunk(j) \/ BeginProbe(j)
      PROVE  IInv' /\ [Gate!Next]_GateVars
  <2>1. PICK kind \in Kinds, pc \in {"ask", "load"}, left \in 0 .. MaxChunk :
          Start(j, kind, pc, left)
    <3>1. /\ 0 \in 0 .. MaxChunk
          /\ \A size \in 1 .. MaxChunk : size \in 0 .. MaxChunk
      OBVIOUS
    <3>2. {"change", "part", "check", "probe"} \subseteq Kinds
      BY DEF Kinds
    <3> QED  BY <1>1, <3>1, <3>2 DEF BeginChange, BeginPart, BeginChunk, BeginProbe
  <2>2. /\ job' \in [Jobs -> Running \cup {Idle}]
        /\ job[j].pc = "idle" /\ job'[j].pc = pc /\ job'[j].on = Ours
        /\ \A i \in Jobs \ {j} : job'[i] = job[i]
        /\ UNCHANGED <<mounted, available, told, content, free, misled>>
    BY <1>0, <2>1, Starts
  <2>3. GateInv'
    BY <2>2, Kept
  <2>4. UNCHANGED GateVars
    BY <2>2, Outside
  <2> QED  BY <1>0, <2>2, <2>3, <2>4 DEF IInv, TypeOK
<1>2. ASSUME \/ Ask(j) \/ (Load(j) /\ ~available) \/ CloseProbe(j) \/ OpenPart(j) \/ Finish(j)
      PROVE  IInv' /\ [Gate!Next]_GateVars
  <2>1. UNCHANGED <<mounted, available, told, content, free, misled>> /\ job[j].pc # "idle"
    BY <1>2 DEF Ask, Load, CloseProbe, OpenPart, Finish, At
  <2>2. PICK pc \in {"load", "mark", "write", "finish"} :
          /\ End(j) \/ Goto(j, pc)
          /\ pc = "write" => job[j].pc = "operate"
    BY <1>2 DEF Ask, Load, CloseProbe, OpenPart, Finish, At
  <2>3. /\ job' \in [Jobs -> Running \cup {Idle}] /\ \A i \in Jobs \ {j} : job'[i] = job[i]
        /\ job'[j] # Idle => job'[j].on = Ours
        /\ job'[j].pc \in {"idle", pc}
    BY <1>0, <2>1, <2>2, Moves, Pcs
  <2>4. GateInv'
    BY <2>1, <2>3, Kept
  <2>5. [Gate!Next]_GateVars
    <3>1. CASE job'[j].pc = "write"
      BY <2>1, <2>2, <2>3, <3>1, Outside
    <3>2. CASE job'[j].pc # "write"
      BY <2>1, <2>3, <3>2, Leaves
    <3> QED  BY <3>1, <3>2
  <2> QED  BY <1>0, <2>1, <2>3, <2>4, <2>5 DEF IInv, TypeOK
<1>3. ASSUME Load(j), available
      PROVE  IInv' /\ [Gate!Next]_GateVars
  <2>1. UNCHANGED <<mounted, available, told, content, free, misled>>
        /\ job[j].pc # "idle" /\ Goto(j, "open")
    BY <1>3 DEF Load, At
  <2>2. /\ job' \in [Jobs -> Running \cup {Idle}] /\ \A i \in Jobs \ {j} : job'[i] = job[i]
        /\ job'[j] # Idle /\ job'[j].on = Ours /\ job'[j].pc = "open"
    BY <1>0, <2>1, Moves, Pcs
  <2>3. GateInv'
    BY <2>1, <2>2, Kept
  <2>4. Admitted' = Admitted \cup {j}
    BY <2>2 DEF Admitted
  <2>5. Gate!Admit(j)
    BY <1>3, <2>1, <2>4 DEF Gate!Admit, Admitted
  <2> QED  BY <1>0, <2>1, <2>2, <2>3, <2>5 DEF IInv, TypeOK, Gate!Next
<1>4. ASSUME Open(j)
      PROVE  IInv' /\ [Gate!Next]_GateVars
  <2>1. UNCHANGED <<mounted, available, told, content, free, misled>> /\ job[j].pc = "open"
    BY <1>4 DEF Open, At
  <2>2. CASE Goto(j, "mark")
    <3>1. /\ job' \in [Jobs -> Running \cup {Idle}] /\ \A i \in Jobs \ {j} : job'[i] = job[i]
          /\ job'[j].on = Ours /\ job'[j].pc = "mark"
      BY <1>0, <2>1, <2>2, Moves, Pcs
    <3> QED  BY <1>0, <2>1, <3>1, Kept, Leaves DEF IInv, TypeOK
  <2>3. CASE Genuine /\ job' = [job EXCEPT ![j].pc = "operate", ![j].on = mounted]
    <3> DEFINE x == [job[j] EXCEPT !.pc = "operate", !.on = Ours]
    <3>1. job[j] \in Running
      BY <1>0, <2>1, Pcs
    <3>2. x \in Running /\ x.pc = "operate" /\ x.on = Ours
      BY <3>1 DEF Running
    <3>3. job' = [job EXCEPT ![j] = x]
      BY <1>0, <2>3 DEF TypeOK, Genuine
    <3> HIDE DEF x
    <3>4. /\ job' \in [Jobs -> Running \cup {Idle}] /\ \A i \in Jobs \ {j} : job'[i] = job[i]
          /\ job'[j].on = Ours /\ job'[j].pc = "operate"
      BY <1>0, <3>2, <3>3 DEF TypeOK
    <3> QED  BY <1>0, <2>1, <3>4, Kept, Outside DEF IInv, TypeOK
  <2> QED  BY <1>4, <2>2, <2>3 DEF Open
<1>5. ASSUME Operate(j)
      PROVE  IInv' /\ [Gate!Next]_GateVars
  <2>1. UNCHANGED <<mounted, available, told, misled>> /\ job[j].pc = "operate" /\ job[j] # Idle
    BY <1>0, <1>5, Pcs DEF Operate, At
  <2>2. free' \in 0 .. Space
    BY <1>0, <1>5 DEF Operate, TypeOK
  <2>3. CASE UNCHANGED content /\ Goto(j, "finish")
    <3>1. /\ job' \in [Jobs -> Running \cup {Idle}] /\ \A i \in Jobs \ {j} : job'[i] = job[i]
          /\ job'[j].on = Ours /\ job'[j].pc = "finish"
      BY <1>0, <2>1, <2>3, Moves
    <3> QED  BY <1>0, <2>1, <2>2, <2>3, <3>1, Kept, Leaves DEF IInv, TypeOK
  <2>4. CASE Touch(job[j].on) /\ End(j)
    <3>1. /\ job' \in [Jobs -> Running \cup {Idle}] /\ \A i \in Jobs \ {j} : job'[i] = job[i]
          /\ job'[j] = Idle /\ job'[j].pc = "idle"
      BY <1>0, <2>4, Moves
    <3>2. PICK c \in 0 .. 1 : content' = [content EXCEPT ![Ours] = c]
      BY <1>0, <2>1, <2>4 DEF Touch
    <3>3. j \in Admitted /\ Admitted' = Admitted \ {j}
      BY <2>1, <3>1 DEF Admitted
    <3>4. Gate!Change(j)
      BY <2>1, <3>2, <3>3 DEF Gate!Change, Gate!Changes, Admitted
    <3>5. content' \in [Volumes -> 0 .. 1]
      BY <1>0, <3>2 DEF TypeOK
    <3> QED  BY <1>0, <2>1, <2>2, <3>1, <3>4, <3>5, Kept DEF IInv, TypeOK, Gate!Next
  <2> QED  BY <1>5, <2>3, <2>4 DEF Operate
<1>6. ASSUME CheckAvailable(j)
      PROVE  IInv' /\ [Gate!Next]_GateVars
  <2>1. UNCHANGED <<mounted, available, told, content, free>> /\ job[j].pc = "operate" /\ job[j] # Idle
    BY <1>0, <1>6, Pcs DEF CheckAvailable, At
  <2>2. misled' \in BOOLEAN
    BY <1>0, <1>6 DEF CheckAvailable, TypeOK
  <2>3. CASE Goto(j, "finish")
    <3>1. /\ job' \in [Jobs -> Running \cup {Idle}] /\ \A i \in Jobs \ {j} : job'[i] = job[i]
          /\ job'[j].on = Ours /\ job'[j].pc = "finish"
      BY <1>0, <2>1, <2>3, Moves
    <3> QED  BY <1>0, <2>1, <2>2, <3>1, Kept, Leaves DEF IInv, TypeOK
  <2>4. CASE job' = [job EXCEPT ![j].pc = "load", ![j].kind = "stream"]
    <3> DEFINE x == [job[j] EXCEPT !.pc = "load", !.kind = "stream"]
    <3>1. job[j] \in Running
      BY <1>0, <2>1, Pcs
    <3>2. x \in Running /\ x.pc = "load" /\ x.on = job[j].on
      BY <3>1 DEF Running, Kinds
    <3>3. job' = [job EXCEPT ![j] = x]
      BY <1>0, <2>4 DEF TypeOK
    <3> HIDE DEF x
    <3>4. /\ job' \in [Jobs -> Running \cup {Idle}] /\ \A i \in Jobs \ {j} : job'[i] = job[i]
          /\ job'[j].on = Ours /\ job'[j].pc = "load"
      BY <1>0, <2>1, <3>2, <3>3 DEF TypeOK
    <3> QED  BY <1>0, <2>1, <2>2, <3>4, Kept, Leaves DEF IInv, TypeOK
  <2> QED  BY <1>6, <2>3, <2>4 DEF CheckAvailable
<1>7. ASSUME Write(j)
      PROVE  IInv' /\ [Gate!Next]_GateVars
  <2>1. UNCHANGED <<mounted, available, told, misled>> /\ job[j].pc = "write" /\ job[j] # Idle
    BY <1>0, <1>7, Pcs DEF Write, At
  <2>2. CASE End(j) /\ UNCHANGED <<free, content>>
    <3>1. /\ job' \in [Jobs -> Running \cup {Idle}] /\ \A i \in Jobs \ {j} : job'[i] = job[i]
          /\ job'[j] = Idle /\ job'[j].pc = "idle"
      BY <1>0, <2>2, Moves
    <3> QED  BY <1>0, <2>1, <2>2, <3>1, Kept, Leaves DEF IInv, TypeOK
  <2>3. ASSUME NEW n \in 1 .. job[j].left, n <= free, free' = free - n,
               job' = [job EXCEPT ![j].left = @ - n], Touch(job[j].on)
        PROVE  IInv' /\ [Gate!Next]_GateVars
    <3>1. job[j] \in Running
      BY <1>0, <2>1, Pcs
    <3>2. job[j].left \in 0 .. MaxChunk
      BY <3>1 DEF Running
    <3>3. PICK rest \in 0 .. MaxChunk : rest = job[j].left - n
      BY <2>3, <3>2
    <3> DEFINE x == [job[j] EXCEPT !.left = rest]
    <3>4. x \in Running /\ x.pc = "write" /\ x.on = job[j].on
      BY <2>1, <3>1 DEF Running
    <3>5. job' = [job EXCEPT ![j] = x]
      BY <1>0, <2>3, <3>3 DEF TypeOK
    <3> HIDE DEF x
    <3>6. /\ job' \in [Jobs -> Running \cup {Idle}] /\ \A i \in Jobs \ {j} : job'[i] = job[i]
          /\ job'[j].on = Ours /\ job'[j].pc = "write"
      BY <1>0, <2>1, <3>4, <3>5 DEF TypeOK
    <3>7. free' \in 0 .. Space
      BY <1>0, <2>3 DEF TypeOK
    <3>8. PICK c \in 0 .. 1 : content' = [content EXCEPT ![Ours] = c]
      BY <1>0, <2>1, <2>3 DEF Touch
    <3>9. j \in Admitted /\ Admitted' = Admitted
      BY <2>1, <3>6 DEF Admitted
    <3>10. Gate!Change(j)
      BY <2>1, <3>8, <3>9 DEF Gate!Change, Gate!Changes, Admitted
    <3>11. content' \in [Volumes -> 0 .. 1]
      BY <1>0, <3>8 DEF TypeOK
    <3> QED  BY <1>0, <2>1, <3>6, <3>7, <3>10, <3>11, Kept DEF IInv, TypeOK, Gate!Next
  <2> QED  BY <1>7, <2>2, <2>3 DEF Write
<1>8. ASSUME MarkUnavailable(j)
      PROVE  IInv' /\ [Gate!Next]_GateVars
  <2>1. UNCHANGED <<mounted, told, content, free, misled>> /\ job[j].pc = "mark" /\ job[j] # Idle
    BY <1>0, <1>8, Pcs DEF MarkUnavailable, At
  <2>2. CASE available /\ available' = FALSE /\ Goto(j, "notify")
    <3>1. /\ job' \in [Jobs -> Running \cup {Idle}] /\ \A i \in Jobs \ {j} : job'[i] = job[i]
          /\ job'[j].on = Ours /\ job'[j].pc = "notify"
      BY <1>0, <2>1, <2>2, Moves
    <3>2. told = 0 /\ \A i \in Jobs : job[i].pc # "notify"
      BY <1>0, <2>2 DEF GateInv, At
    <3>3. GateInv'
      BY <1>0, <2>1, <2>2, <3>1, <3>2 DEF GateInv, At
    <3>4. Admitted' = Admitted
      BY <2>1, <3>1 DEF Admitted
    <3>5. Gate!Fall
      BY <2>1, <2>2, <3>4 DEF Gate!Fall, Admitted
    <3> QED  BY <1>0, <2>1, <2>2, <3>1, <3>3, <3>5 DEF IInv, TypeOK, Gate!Next
  <2>3. CASE UNCHANGED available /\ End(j)
    <3>1. /\ job' \in [Jobs -> Running \cup {Idle}] /\ \A i \in Jobs \ {j} : job'[i] = job[i]
          /\ job'[j] = Idle /\ job'[j].pc = "idle"
      BY <1>0, <2>3, Moves
    <3> QED  BY <1>0, <2>1, <2>3, <3>1, Kept, Leaves DEF IInv, TypeOK
  <2> QED  BY <1>8, <2>2, <2>3 DEF MarkUnavailable
<1>9. ASSUME Notify(j)
      PROVE  IInv' /\ [Gate!Next]_GateVars
  <2>1. UNCHANGED <<mounted, available, content, free, misled>> /\ told' = told + 1 /\ End(j)
        /\ job[j].pc = "notify"
    BY <1>9 DEF Notify, At
  <2>2. /\ job' \in [Jobs -> Running \cup {Idle}] /\ \A i \in Jobs \ {j} : job'[i] = job[i]
        /\ job'[j] = Idle /\ job'[j].pc = "idle"
    BY <1>0, <2>1, Moves
  <2>3. ~available /\ told = 0 /\ \A i \in Jobs \ {j} : job[i].pc # "notify"
    BY <1>0, <2>1 DEF GateInv, At
  <2>4. GateInv'
    BY <1>0, <2>1, <2>2, <2>3 DEF GateInv, At
  <2>5. Admitted' = Admitted
    BY <2>1, <2>2 DEF Admitted
  <2>6. Gate!Tell
    BY <2>1, <2>3, <2>5 DEF Gate!Tell, Admitted
  <2> QED  BY <1>0, <2>1, <2>2, <2>3, <2>4, <2>6 DEF IInv, TypeOK, Gate!Next
<1> QED  BY <1>1, <1>2, <1>3, <1>4, <1>5, <1>6, <1>7, <1>8, <1>9 DEF Job

LEMMA Step == IInv /\ [Next]_vars => IInv' /\ [Gate!Next]_GateVars
<1> SUFFICES ASSUME IInv, [Next]_vars PROVE IInv' /\ [Gate!Next]_GateVars
  OBVIOUS
<1>0. TypeOK /\ GateInv
  BY DEF IInv
<1>1. CASE \E j \in Jobs : Job(j)
  BY <1>1, JobStep
<1>2. CASE Remount
  <2>1. UNCHANGED <<available, told, content, free, misled, job>> /\ mounted' \in Volumes \cup {Nothing}
    BY <1>2 DEF Remount
  <2>2. UNCHANGED GateVars
    BY <2>1 DEF GateVars, Admitted
  <2>3. GateInv' /\ TypeOK'
    BY <1>0, <2>1 DEF GateInv, At, TypeOK
  <2> QED  BY <2>2, <2>3 DEF IInv
<1>3. CASE Restart
  <2>1. /\ \A j \in Jobs : job'[j] = Idle /\ job'[j].pc = "idle"
        /\ job' \in [Jobs -> Running \cup {Idle}]
    BY <1>3 DEF Restart, Idle
  <2>2. available' \in BOOLEAN /\ told' = IF available' THEN 0 ELSE 1
    BY <1>3 DEF Restart
  <2>3. UNCHANGED <<mounted, free, misled>>
    BY <1>3 DEF Restart
  <2>4. PICK c \in 0 .. 1 : content' = [content EXCEPT ![Ours] = c]
    <3>1. CASE Touch(Ours)
      BY <3>1 DEF Touch
    <3>2. CASE UNCHANGED content
      <4>1. content = [content EXCEPT ![Ours] = content[Ours]] /\ content[Ours] \in 0 .. 1
        BY <1>0 DEF TypeOK
      <4> QED  BY <3>2, <4>1
    <3> QED  BY <1>3, <3>1, <3>2 DEF Restart
  <2>5. content' \in [Volumes -> 0 .. 1]
    BY <1>0, <2>4 DEF TypeOK
  <2>6. told' \in Nat
    BY <2>2
  <2>7. TypeOK'
    BY <1>0, <2>1, <2>2, <2>3, <2>5, <2>6 DEF TypeOK
  <2>8. GateInv'
    BY <2>1, <2>2 DEF GateInv, At
  <2>9. Admitted' = {}
    BY <2>1 DEF Admitted
  <2>10. Gate!Restart
    BY <2>2, <2>4, <2>9 DEF Gate!Restart, Gate!Opened, Gate!Changes, Admitted
  <2> QED  BY <2>7, <2>8, <2>10 DEF IInv, Gate!Next
<1>4. CASE UNCHANGED vars
  BY <1>0, <1>4 DEF vars, IInv, TypeOK, GateInv, At, GateVars, Admitted
<1> QED  BY <1>1, <1>2, <1>3, <1>4 DEF Next

\* The types hold.
THEOREM TypeCorrect == Spec => []TypeOK
<1>1. IInv => TypeOK
  BY DEF IInv
<1> QED  BY <1>1, InitHolds, Step, PTL DEF Spec

\* The provider implements StorageGate: it falls once and tells once, passes
\* nothing while it is down, and writes to no other volume (availability.go).
THEOREM GateImplemented == Spec => ProviderIsAGate
<1>1. Init => Gate!Init
  <2> SUFFICES ASSUME Init PROVE Gate!Init
    OBVIOUS
  <2>1. Admitted = {}
    BY DEF Init, Admitted, Idle
  <2>2. content \in [Volumes -> 0 .. 1]
    BY DEF Init
  <2> QED  BY <2>1, <2>2 DEF Init, Gate!Init, Admitted
<1>2. IInv /\ [Next]_vars => [Gate!Next]_<<available, told, Admitted, content>>
  BY Step DEF GateVars
<1>3. Spec => []IInv
  BY InitHolds, Step, PTL DEF Spec
<1> QED  BY <1>1, <1>2, <1>3, PTL DEF Spec, ProviderIsAGate, Gate!Spec, Gate!vars, Admitted
-----------------------------------------------------------------------------
(* The reserve.  What the admitted chunk requests may still write is       *)
(* counted as the set of pairs <<request, unit>>: a check that passes adds *)
(* the pairs of its request, a write takes as many away as it takes space, *)
(* and nothing else takes space.                                           *)

Owed == {x \in Jobs \X (1 .. MaxChunk) :
           x[1] \in Busy({"stream"}) /\ x[2] <= job[x[1]].left}
SlotInv == Cardinality(Busy({"check", "stream"})) <= Slots
WriteInv == \A j \in Jobs : At(j, "write") => job[j].kind = "stream"
ReserveInv ==
  \/ misled
  \/ Busy({"stream"}) = {}
  \/ free + Overdraft >= Reserve + Cardinality(Owed)

RInv == IInv /\ SlotInv /\ WriteInv /\ ReserveInv

\* The units of some requests.
Units(S, n) == S \X (1 .. n)

LEMMA UnitsCounted ==
  ASSUME NEW S \in SUBSET Jobs, NEW n \in 0 .. MaxChunk
  PROVE  /\ IsFiniteSet(S) /\ IsFiniteSet(Units(S, n))
         /\ Cardinality(S) \in Nat
         /\ Cardinality(Units(S, n)) = Cardinality(S) * n
<1>1. IsFiniteSet(S)
  BY FS_Subset
<1>2. Cardinality(S) \in Nat
  BY <1>1, FS_CardinalityType
<1>3. 1 \in Int /\ n \in Int
  OBVIOUS
<1>4. IsFiniteSet(1 .. n) /\ Cardinality(1 .. n) = IF 1 > n THEN 0 ELSE n - 1 + 1
  BY <1>3, FS_Interval
<1>5. Cardinality(1 .. n) = n
  BY <1>4
<1> QED  BY <1>1, <1>2, <1>4, <1>5, FS_Product DEF Units

LEMMA OwedFinite == IsFiniteSet(Owed) /\ Cardinality(Owed) \in Nat
<1>1. MaxChunk \in 0 .. MaxChunk
  OBVIOUS
<1>2. IsFiniteSet(Units(Jobs, MaxChunk))
  BY <1>1, UnitsCounted
<1>3. Owed \in SUBSET Units(Jobs, MaxChunk)
  BY DEF Owed, Units
<1>4. IsFiniteSet(Owed)
  BY <1>2, <1>3, FS_Subset
<1> QED  BY <1>4, FS_CardinalityType

LEMMA OverdraftType == Overdraft \in Nat
<1>1. Slots - 1 \in Nat /\ MaxChunk \in Nat
  OBVIOUS
<1>2. \A a, b \in Nat : a * b \in Nat
  OBVIOUS
<1>3. (Slots - 1) * MaxChunk \in Nat
  BY <1>1, <1>2
<1> QED  BY <1>3 DEF Overdraft

\* The other requests than one that holds a slot owe at most this.
LEMMA OthersOwe ==
  ASSUME SlotInv, NEW j \in Busy({"check", "stream"})
  PROVE  /\ IsFiniteSet(Units(Busy({"stream"}) \ {j}, MaxChunk))
         /\ Cardinality(Units(Busy({"stream"}) \ {j}, MaxChunk)) \in Nat
         /\ Cardinality(Units(Busy({"stream"}) \ {j}, MaxChunk)) <= Overdraft
<1> DEFINE B == Busy({"check", "stream"})
           O == Busy({"stream"}) \ {j}
<1>1. B \in SUBSET Jobs /\ O \in SUBSET B \ {j} /\ O \in SUBSET Jobs /\ j \in B
  BY DEF Busy
<1>2. IsFiniteSet(B) /\ Cardinality(B) \in Nat /\ Cardinality(B) <= Slots
  BY <1>1, FS_Subset, FS_CardinalityType DEF SlotInv
<1> HIDE DEF B, O
<1>3. IsFiniteSet(B \ {j}) /\ Cardinality(B \ {j}) = Cardinality(B) - 1
  BY <1>1, <1>2, FS_RemoveElement
<1>4. Cardinality(O) <= Cardinality(B \ {j})
  BY <1>1, <1>3, FS_Subset
<1>5. MaxChunk \in 0 .. MaxChunk
  OBVIOUS
<1>6. /\ IsFiniteSet(Units(O, MaxChunk))
      /\ Cardinality(O) \in Nat
      /\ Cardinality(Units(O, MaxChunk)) = Cardinality(O) * MaxChunk
  BY <1>1, <1>5, UnitsCounted
<1>7. Cardinality(O) <= Slots - 1 /\ Slots - 1 \in Nat /\ MaxChunk \in Nat
  BY <1>2, <1>3, <1>4, <1>6
<1>8. \A a, b, c \in Nat : a <= b => a * c \in Nat /\ a * c <= b * c
  BY Z3
<1>9. /\ Cardinality(O) * MaxChunk \in Nat
      /\ Cardinality(O) * MaxChunk <= (Slots - 1) * MaxChunk
  BY <1>6, <1>7, <1>8
<1>10. Cardinality(Units(O, MaxChunk)) \in Nat
  BY <1>6, <1>9
<1>11. Cardinality(Units(O, MaxChunk)) <= Overdraft
  <2>1. (Slots - 1) * MaxChunk \in Nat
    BY <1>7, <1>8
  <2> QED  BY <1>6, <1>9, <1>10, <2>1 DEF Overdraft
<1> QED  BY <1>6, <1>10, <1>11 DEF O

-----------------------------------------------------------------------------

\* A step of one goroutine that takes no slot keeps the bound of the slots.
LEMMA SlotsKept ==
  ASSUME SlotInv, NEW j \in Jobs, \A i \in Jobs \ {j} : job'[i] = job[i],
         j \in Busy({"check", "stream"})' => j \in Busy({"check", "stream"})
  PROVE  SlotInv'
<1>1. Busy({"check", "stream"})' \in SUBSET Busy({"check", "stream"})
  BY DEF Busy
<1>2. Busy({"check", "stream"}) \in SUBSET Jobs
  BY DEF Busy
<1>3. /\ IsFiniteSet(Busy({"check", "stream"}))
      /\ Cardinality(Busy({"check", "stream"})) \in Nat
  BY <1>2, FS_Subset, FS_CardinalityType
<1>4. /\ IsFiniteSet(Busy({"check", "stream"})')
      /\ Cardinality(Busy({"check", "stream"})') \in Nat
      /\ Cardinality(Busy({"check", "stream"})') <= Cardinality(Busy({"check", "stream"}))
  BY <1>1, <1>3, FS_Subset, FS_CardinalityType
<1> QED  BY <1>3, <1>4 DEF SlotInv

LEMMA WriteKept ==
  ASSUME WriteInv, NEW j \in Jobs, \A i \in Jobs \ {j} : job'[i] = job[i],
         job'[j].pc = "write" => job'[j].kind = "stream"
  PROVE  WriteInv'
BY DEF WriteInv, At

\* Nor does one that owes no more than before and takes no space break the
\* bound of the reserve.
LEMMA ReserveUntouched ==
  ASSUME IInv, ReserveInv, TypeOK', NEW j \in Jobs, \A i \in Jobs \ {j} : job'[i] = job[i],
         j \in Busy({"stream"})' => j \in Busy({"stream"}) /\ job'[j].left = job[j].left,
         misled' = misled, free' >= free
  PROVE  ReserveInv'
<1>1. Busy({"stream"})' \in SUBSET Busy({"stream"})
  BY DEF Busy
<1>2. Owed' \in SUBSET Owed
  <2> SUFFICES ASSUME NEW x \in Owed' PROVE x \in Owed
    OBVIOUS
  <2>1. x \in Jobs \X (1 .. MaxChunk) /\ x[1] \in Busy({"stream"})' /\ x[2] <= job'[x[1]].left
    BY DEF Owed
  <2>2. job'[x[1]].left = job[x[1]].left
    BY <2>1
  <2> QED  BY <1>1, <2>1, <2>2 DEF Owed
<1>3. IsFiniteSet(Owed) /\ Cardinality(Owed) \in Nat
  BY OwedFinite
<1>4. Cardinality(Owed') \in Nat /\ Cardinality(Owed') <= Cardinality(Owed)
  BY <1>2, <1>3, FS_Subset, FS_CardinalityType
<1>5. free \in Nat /\ free' \in Nat /\ Overdraft \in Nat /\ Overdraft' = Overdraft
  BY OverdraftType DEF IInv, TypeOK, Overdraft
<1>6. CASE Busy({"stream"}) = {}
  BY <1>1, <1>6 DEF ReserveInv
<1>7. CASE free + Overdraft >= Reserve + Cardinality(Owed)
  <2>1. free' + Overdraft' >= Reserve + Cardinality(Owed')
    BY <1>3, <1>4, <1>5, <1>7
  <2> QED  BY <2>1 DEF ReserveInv
<1>8. CASE misled
  BY <1>8 DEF ReserveInv
<1> QED  BY <1>6, <1>7, <1>8 DEF ReserveInv

-----------------------------------------------------------------------------

\* The three bounds after a step of one goroutine that is neither the start
\* of a chunk request, nor its check, nor a write.
RInvKept == SlotInv' /\ WriteInv' /\ ReserveInv'

LEMMA Aside ==
  ASSUME RInv, TypeOK', NEW j \in Jobs, \A i \in Jobs \ {j} : job'[i] = job[i],
         \/ job'[j] = Idle
         \/ job'[j].pc # "write" /\ job'[j].kind \notin {"check", "stream"}
         \/ /\ job[j] # Idle /\ job'[j].kind = job[j].kind /\ job'[j].left = job[j].left
            /\ job'[j].pc = "write" => job'[j].kind = "stream",
         misled' = misled, free' >= free
  PROVE  RInvKept
<1>1. job'[j] = Idle => job'[j].pc = "idle"
  BY DEF Idle
<1>2. SlotInv'
  <2>1. j \in Busy({"check", "stream"})' => j \in Busy({"check", "stream"})
    BY DEF Busy
  <2> QED  BY <2>1, SlotsKept DEF RInv
<1>3. WriteInv'
  BY <1>1, WriteKept DEF RInv
<1>4. ReserveInv'
  <2>1. j \in Busy({"stream"})' => j \in Busy({"stream"}) /\ job'[j].left = job[j].left
    BY DEF Busy
  <2> QED  BY <2>1, ReserveUntouched DEF RInv
<1> QED  BY <1>2, <1>3, <1>4 DEF RInvKept

\* Goto keeps the kind of a job and what is left of it.
LEMMA GotoKeeps ==
  ASSUME TypeOK, NEW j \in Jobs, job[j].pc # "idle",
         NEW pc \in {"ask", "load", "open", "operate", "finish", "mark", "notify", "write"},
         Goto(j, pc)
  PROVE  /\ job[j] # Idle /\ job'[j].kind = job[j].kind /\ job'[j].left = job[j].left
         /\ job'[j].pc = pc
         /\ \A i \in Jobs \ {j} : job'[i] = job[i]
<1>1. job[j] \in Running /\ job[j] # Idle
  BY Pcs
<1> QED  BY <1>1 DEF Goto, TypeOK, Running

LEMMA BeginChunkKeepsReserve ==
  ASSUME RInv, TypeOK', NEW j \in Jobs, BeginChunk(j)
  PROVE  RInvKept
<1>1. PICK size \in 1 .. MaxChunk : Start(j, "check", "load", size)
  BY DEF BeginChunk
<1>2. /\ job[j] = Idle /\ job'[j].kind = "check" /\ job'[j].pc = "load"
      /\ \A i \in Jobs \ {j} : job'[i] = job[i]
      /\ free' = free /\ misled' = misled
  BY <1>1 DEF Start, RInv, IInv, TypeOK
<1>3. SlotInv'
  <2> DEFINE B == Busy({"check", "stream"})
  <2>1. B' \in SUBSET (B \cup {j}) /\ B \in SUBSET Jobs
    BY <1>2 DEF Busy
  <2>2. IsFiniteSet(B) /\ Cardinality(B) \in Nat /\ Cardinality(B) < Slots
    BY <2>1, FS_Subset, FS_CardinalityType DEF BeginChunk
  <2> DEFINE C == B \cup {j}
  <2>3. IsFiniteSet(C) /\ Cardinality(C) \in Nat /\ Cardinality(C) <= Slots
    <3> HIDE DEF B
    <3>1. IsFiniteSet(C) /\ Cardinality(C) = IF j \in B THEN Cardinality(B) ELSE Cardinality(B) + 1
      BY <2>2, FS_AddElement
    <3> QED  BY <2>2, <3>1
  <2>4. Cardinality(B') \in Nat /\ Cardinality(B') <= Cardinality(C)
    BY <2>1, <2>3, FS_Subset, FS_CardinalityType
  <2> QED  BY <2>3, <2>4 DEF SlotInv
<1>4. WriteInv'
  BY <1>2, WriteKept DEF RInv
<1>5. ReserveInv'
  <2>1. j \notin Busy({"stream"})'
    BY <1>2 DEF Busy
  <2>2. free' >= free
    BY <1>2 DEF RInv, IInv, TypeOK
  <2> QED  BY <1>2, <2>1, <2>2, ReserveUntouched DEF RInv
<1> QED  BY <1>3, <1>4, <1>5 DEF RInvKept

\* The check that passes: the others owe at most the overdraft but one unit,
\* and the request one unit more than it was checked for.
LEMMA CheckKeepsReserve ==
  ASSUME RInv, TypeOK', NEW j \in Jobs, CheckAvailable(j)
  PROVE  RInvKept
<1>0. TypeOK /\ job[j].pc = "operate" /\ job[j].kind = "check" /\ free' = free
  BY DEF CheckAvailable, RInv, IInv, At
<1>1. job[j] \in Running /\ job[j] # Idle
  BY <1>0, Pcs
<1>2. free \in Nat /\ free' >= free
  BY <1>0 DEF TypeOK
<1>3. CASE Goto(j, "finish") /\ UNCHANGED misled
  <2>1. /\ job[j] # Idle /\ job'[j].kind = job[j].kind /\ job'[j].left = job[j].left
        /\ job'[j].pc = "finish"
        /\ \A i \in Jobs \ {j} : job'[i] = job[i]
    BY <1>0, <1>3, GotoKeeps
  <2> QED  BY <1>2, <1>3, <2>1, Aside
<1>4. CASE /\ mounted = Ours => free >= job[j].left + Reserve
           /\ misled' = (misled \/ mounted # Ours)
           /\ job' = [job EXCEPT ![j].pc = "load", ![j].kind = "stream"]
  <2>1. /\ job'[j].kind = "stream" /\ job'[j].left = job[j].left /\ job'[j].pc = "load"
        /\ \A i \in Jobs \ {j} : job'[i] = job[i]
    BY <1>0, <1>1, <1>4 DEF TypeOK, Running
  <2>2. SlotInv'
    <3>1. j \in Busy({"check", "stream"})
      BY <1>0, <1>1 DEF Busy
    <3> QED  BY <2>1, <3>1, SlotsKept DEF RInv
  <2>3. WriteInv'
    BY <2>1, WriteKept DEF RInv
  <2>4. ASSUME ~misled'
        PROVE  free' + Overdraft' >= Reserve + Cardinality(Owed')
    <3> DEFINE U == Units(Busy({"stream"}) \ {j}, MaxChunk)
               V == Units({j}, job[j].left)
    <3>1. job[j].left \in 0 .. MaxChunk /\ {j} \in SUBSET Jobs
      BY <1>1 DEF Running
    <3>2. free >= job[j].left + Reserve
      BY <1>4, <2>4
    <3>3. j \in Busy({"check", "stream"})
      BY <1>0, <1>1 DEF Busy
    <3>4. IsFiniteSet(U) /\ Cardinality(U) \in Nat /\ Cardinality(U) <= Overdraft
      BY <3>3, OthersOwe DEF RInv
    <3>5. IsFiniteSet(V) /\ Cardinality(V) = job[j].left
      <4>1. IsFiniteSet(V) /\ Cardinality(V) = Cardinality({j}) * job[j].left
        BY <3>1, UnitsCounted
      <4>2. Cardinality({j}) = 1
        BY FS_Singleton
      <4>3. 1 * job[j].left = job[j].left
        BY <3>1
      <4> QED  BY <4>1, <4>2, <4>3
    <3>6. Owed' \in SUBSET (U \cup V)
      <4> SUFFICES ASSUME NEW x \in Owed', x \notin U PROVE x \in V
        OBVIOUS
      <4>1. x \in Jobs \X (1 .. MaxChunk) /\ x[1] \in Busy({"stream"})' /\ x[2] <= job'[x[1]].left
        BY DEF Owed
      <4>2. x[1] # j => x[1] \in Busy({"stream"})
        BY <2>1, <4>1 DEF Busy
      <4>3. x[1] = j
        BY <4>1, <4>2 DEF Units
      <4>4. x[2] \in 1 .. job[j].left
        BY <2>1, <3>1, <4>1, <4>3
      <4> QED  BY <4>1, <4>3, <4>4 DEF Units
    <3> HIDE DEF U, V
    <3>7. /\ IsFiniteSet(U \cup V) /\ IsFiniteSet(U \cap V)
          /\ Cardinality(U \cup V) = Cardinality(U) + Cardinality(V) - Cardinality(U \cap V)
          /\ Cardinality(U \cap V) \in Nat
      <4>1. U \cap V \in SUBSET U
        OBVIOUS
      <4>2. IsFiniteSet(U \cap V)
        BY <3>4, <4>1, FS_Subset
      <4> QED  BY <3>4, <3>5, <4>2, FS_Union, FS_CardinalityType
    <3>8. Cardinality(Owed') \in Nat /\ Cardinality(Owed') <= Cardinality(U \cup V)
      BY <3>6, <3>7, FS_Subset, FS_CardinalityType
    <3>9. Overdraft \in Nat /\ Overdraft' = Overdraft
      BY OverdraftType DEF Overdraft
    <3> QED  BY <1>0, <1>2, <3>1, <3>2, <3>4, <3>5, <3>7, <3>8, <3>9
  <2>5. ReserveInv'
    BY <2>4 DEF ReserveInv
  <2> QED  BY <2>2, <2>3, <2>5 DEF RInvKept
<1> QED  BY <1>3, <1>4 DEF CheckAvailable

\* A write takes the units it writes away from what its request owes.
LEMMA WriteKeepsReserve ==
  ASSUME RInv, TypeOK', NEW j \in Jobs, Write(j)
  PROVE  RInvKept
<1>0. TypeOK /\ job[j].pc = "write" /\ job[j].kind = "stream" /\ misled' = misled
  BY DEF Write, RInv, IInv, At, WriteInv
<1>1. job[j] \in Running /\ job[j] # Idle /\ free \in Nat
  BY <1>0, Pcs DEF TypeOK
<1>2. CASE End(j) /\ UNCHANGED <<free, content>>
  <2>1. job'[j] = Idle /\ \A i \in Jobs \ {j} : job'[i] = job[i]
    BY <1>0, <1>2, Moves
  <2>2. free' >= free
    BY <1>1, <1>2
  <2> QED  BY <1>0, <2>1, <2>2, Aside
<1>3. ASSUME NEW n \in 1 .. job[j].left, n <= free, free' = free - n,
             job' = [job EXCEPT ![j].left = @ - n]
      PROVE  RInvKept
  <2>1. job[j].left \in 0 .. MaxChunk
    BY <1>1 DEF Running
  <2>2. /\ job'[j].kind = "stream" /\ job'[j].left = job[j].left - n /\ job'[j].pc = "write"
        /\ job'[j] # Idle
        /\ \A i \in Jobs \ {j} : job'[i] = job[i]
    BY <1>0, <1>1, <1>3 DEF TypeOK, Running, Idle
  <2>3. SlotInv'
    <3>1. j \in Busy({"check", "stream"})
      BY <1>0, <1>1 DEF Busy
    <3> QED  BY <2>2, <3>1, SlotsKept DEF RInv
  <2>4. WriteInv'
    BY <2>2, WriteKept DEF RInv
  <2>5. ReserveInv'
    <3> DEFINE W == {j} \X ((job[j].left - n + 1) .. job[j].left)
    <3>1. j \in Busy({"stream"})
      BY <1>0, <1>1 DEF Busy
    <3>2. IsFiniteSet(W) /\ Cardinality(W) = n
      <4>1. job[j].left - n + 1 \in Int /\ job[j].left \in Int
        BY <2>1
      <4>2. /\ IsFiniteSet((job[j].left - n + 1) .. job[j].left)
            /\ Cardinality((job[j].left - n + 1) .. job[j].left) =
                 IF job[j].left - n + 1 > job[j].left THEN 0
                                                      ELSE job[j].left - (job[j].left - n + 1) + 1
        BY <4>1, FS_Interval
      <4>3. Cardinality((job[j].left - n + 1) .. job[j].left) = n
        BY <2>1, <4>2
      <4>4. IsFiniteSet({j}) /\ Cardinality({j}) = 1
        BY FS_Singleton
      <4>5. IsFiniteSet(W) /\ Cardinality(W) = 1 * n
        BY <4>2, <4>3, <4>4, FS_Product
      <4> QED  BY <2>1, <4>5
    <3>3. W \cup Owed' \in SUBSET Owed
      <4>1. ASSUME NEW x \in W PROVE x \in Owed
        <5>1. x[1] = j /\ x[2] \in (job[j].left - n + 1) .. job[j].left /\ x = <<x[1], x[2]>>
          OBVIOUS
        <5>2. x[2] \in 1 .. MaxChunk /\ x[2] <= job[j].left
          BY <2>1, <5>1
        <5>3. x \in Jobs \X (1 .. MaxChunk)
          BY <5>1, <5>2
        <5> QED  BY <3>1, <5>1, <5>2, <5>3 DEF Owed
      <4>2. ASSUME NEW x \in Owed' PROVE x \in Owed
        <5>1. x \in Jobs \X (1 .. MaxChunk) /\ x[1] \in Busy({"stream"})' /\ x[2] <= job'[x[1]].left
          BY <4>2 DEF Owed
        <5>2. x[1] \in Busy({"stream"})
          BY <2>2, <3>1, <5>1 DEF Busy
        <5>3. CASE x[1] = j
          <6>1. x[2] <= job[j].left - n /\ x[2] \in Nat
            BY <2>2, <5>1, <5>3
          <6>2. x[2] <= job[j].left
            BY <2>1, <6>1
          <6> QED  BY <5>1, <5>2, <5>3, <6>2 DEF Owed
        <5>4. CASE x[1] # j
          BY <2>2, <5>1, <5>2, <5>4 DEF Owed
        <5> QED  BY <5>3, <5>4
      <4> QED  BY <4>1, <4>2
    <3>4. W \cap Owed' = {}
      <4> SUFFICES ASSUME NEW x \in Owed', x \in W PROVE FALSE
        OBVIOUS
      <4>1. x[1] = j /\ x[2] \in (job[j].left - n + 1) .. job[j].left
        OBVIOUS
      <4>2. x[2] <= job'[x[1]].left
        BY DEF Owed
      <4> QED  BY <2>1, <2>2, <4>1, <4>2
    <3> HIDE DEF W
    <3>5. IsFiniteSet(Owed) /\ Cardinality(Owed) \in Nat
      BY OwedFinite
    <3>6. IsFiniteSet(Owed') /\ Cardinality(Owed') \in Nat
      BY <3>3, <3>5, FS_Subset, FS_CardinalityType
    <3>7. Cardinality(W \cup Owed') = n + Cardinality(Owed')
      <4>1. Cardinality(W \cup Owed') =
              Cardinality(W) + Cardinality(Owed') - Cardinality(W \cap Owed')
        BY <3>2, <3>6, FS_Union
      <4>2. Cardinality(W \cap Owed') = 0
        BY <3>4, FS_EmptySet
      <4> QED  BY <3>2, <3>6, <4>1, <4>2
    <3>8. Cardinality(W \cup Owed') <= Cardinality(Owed)
      BY <3>3, <3>5, FS_Subset
    <3>9. Overdraft \in Nat /\ Overdraft' = Overdraft
      BY OverdraftType DEF Overdraft
    <3>10. misled \/ free + Overdraft >= Reserve + Cardinality(Owed)
      BY <3>1 DEF RInv, ReserveInv
    <3>11. misled' \/ free' + Overdraft' >= Reserve + Cardinality(Owed')
      BY <1>0, <1>1, <1>3, <2>1, <3>5, <3>6, <3>7, <3>8, <3>9, <3>10
    <3> QED  BY <3>11 DEF ReserveInv
  <2> QED  BY <2>3, <2>4, <2>5 DEF RInvKept
<1> QED  BY <1>2, <1>3 DEF Write

LEMMA JobKeepsReserve ==
  ASSUME RInv, NEW j \in Jobs, Job(j)
  PROVE  RInv'
<1>0. IInv' /\ TypeOK' /\ TypeOK /\ free \in Nat /\ free' \in Nat
  BY JobStep DEF RInv, IInv, TypeOK
<1>1. ASSUME BeginChange(j) \/ BeginPart(j) \/ BeginProbe(j)
      PROVE  RInvKept
  <2>1. PICK kind \in {"change", "part", "probe"}, pc \in {"load", "ask"} : Start(j, kind, pc, 0)
    BY <1>1 DEF BeginChange, BeginPart, BeginProbe
  <2>2. /\ job'[j].kind = kind /\ job'[j].pc = pc
        /\ \A i \in Jobs \ {j} : job'[i] = job[i]
        /\ free' = free /\ misled' = misled
    BY <1>0, <2>1 DEF Start, TypeOK
  <2> QED  BY <1>0, <2>2, Aside
<1>2. ASSUME \/ Ask(j) \/ Load(j) \/ CloseProbe(j) \/ OpenPart(j) \/ Finish(j)
             \/ MarkUnavailable(j) \/ Notify(j) \/ Operate(j)
      PROVE  RInvKept
  <2>1. misled' = misled /\ job[j].pc # "idle"
    BY <1>2 DEF Ask, Load, CloseProbe, OpenPart, Finish, MarkUnavailable, Notify, Operate, At
  <2>2. free' >= free
    BY <1>0, <1>2 DEF Ask, Load, CloseProbe, OpenPart, Finish, MarkUnavailable, Notify, Operate
  <2>3. PICK pc \in {"load", "open", "mark", "notify", "finish", "write"} :
          /\ End(j) \/ Goto(j, pc)
          /\ pc = "write" => job[j].kind = "stream"
    BY <1>2 DEF Ask, Load, CloseProbe, OpenPart, Finish, MarkUnavailable, Notify, Operate
  <2>4. CASE End(j)
    <3>1. job'[j] = Idle /\ \A i \in Jobs \ {j} : job'[i] = job[i]
      BY <1>0, <2>4, Moves
    <3> QED  BY <1>0, <2>1, <2>2, <3>1, Aside
  <2>5. CASE Goto(j, pc)
    <3>1. /\ job[j] # Idle /\ job'[j].kind = job[j].kind /\ job'[j].left = job[j].left
          /\ job'[j].pc = pc
          /\ \A i \in Jobs \ {j} : job'[i] = job[i]
      BY <1>0, <2>1, <2>5, GotoKeeps
    <3> QED  BY <1>0, <2>1, <2>2, <2>3, <3>1, Aside
  <2> QED  BY <2>3, <2>4, <2>5
<1>3. ASSUME Open(j)
      PROVE  RInvKept
  <2>1. job[j].pc = "open" /\ free' = free /\ misled' = misled
    BY <1>3 DEF Open, At
  <2>2. job[j] \in Running /\ job[j] # Idle
    BY <1>0, <2>1, Pcs
  <2>3. /\ job'[j].kind = job[j].kind /\ job'[j].left = job[j].left
        /\ job'[j].pc # "write"
        /\ \A i \in Jobs \ {j} : job'[i] = job[i]
    <3>1. CASE Goto(j, "mark")
      BY <1>0, <2>1, <3>1, GotoKeeps
    <3>2. CASE job' = [job EXCEPT ![j].pc = "operate", ![j].on = mounted]
      BY <1>0, <2>2, <3>2 DEF TypeOK, Running
    <3> QED  BY <1>3, <3>1, <3>2 DEF Open
  <2> QED  BY <1>0, <2>1, <2>2, <2>3, Aside
<1>4. RInvKept
  BY <1>0, <1>1, <1>2, <1>3, BeginChunkKeepsReserve, CheckKeepsReserve, WriteKeepsReserve DEF Job
<1> QED  BY <1>0, <1>4 DEF RInv, RInvKept

LEMMA RInvInit == Init => RInv
<1> SUFFICES ASSUME Init PROVE RInv
  OBVIOUS
<1>1. /\ Busy({"check", "stream"}) = {} /\ Busy({"stream"}) = {}
      /\ \A j \in Jobs : ~At(j, "write")
  BY DEF Init, Busy, At, Idle
<1>2. SlotInv
  BY <1>1, FS_EmptySet DEF SlotInv
<1> QED  BY <1>1, <1>2, InitHolds DEF RInv, WriteInv, ReserveInv

LEMMA RInvStep == RInv /\ [Next]_vars => RInv'
<1> SUFFICES ASSUME RInv, [Next]_vars PROVE RInv'
  OBVIOUS
<1>0. IInv'
  BY Step DEF RInv
<1>1. CASE \E j \in Jobs : Job(j)
  BY <1>1, JobKeepsReserve
<1>2. CASE Restart
  <2>1. \A j \in Jobs : job'[j] = Idle /\ job'[j].pc = "idle"
    BY <1>2 DEF Restart, Idle
  <2>2. /\ Busy({"check", "stream"})' = {} /\ Busy({"stream"})' = {}
        /\ \A j \in Jobs : ~At(j, "write")'
    BY <2>1 DEF Busy, At
  <2>3. SlotInv'
    BY <2>2, FS_EmptySet DEF SlotInv
  <2> QED  BY <1>0, <2>2, <2>3 DEF RInv, WriteInv, ReserveInv
<1>3. CASE Remount \/ UNCHANGED vars
  <2>1. UNCHANGED <<free, misled, job>>
    BY <1>3 DEF Remount, vars
  <2> QED  BY <1>0, <2>1 DEF RInv, SlotInv, WriteInv, ReserveInv, Busy, At, Owed, Overdraft
<1> QED  BY <1>1, <1>2, <1>3 DEF Next

\* Only a write takes space, and its request still owes what it has left.
LEMMA WritesLeaveTheReserve ==
  RInv /\ RInv' /\ [Next]_vars =>
    (free' < free => misled \/ free' + Overdraft >= Reserve)
<1> SUFFICES ASSUME RInv, RInv', [Next]_vars, free' < free
             PROVE  misled \/ free' + Overdraft >= Reserve
  OBVIOUS
<1>0. free \in Nat /\ free' \in Nat /\ TypeOK
  BY DEF RInv, IInv, TypeOK
<1>1. PICK j \in Jobs : Job(j)
  BY <1>0 DEF Next, Remount, Restart, vars
<1>2. Write(j)
  BY <1>0, <1>1 DEF Job, BeginChange, BeginPart, BeginChunk, BeginProbe, Start, Ask, Load, Open,
    Operate, CloseProbe, CheckAvailable, OpenPart, Finish, MarkUnavailable, Notify
<1>3. job[j].pc = "write" /\ job[j].kind = "stream" /\ misled' = misled
  BY <1>2 DEF Write, At, RInv, WriteInv
<1>4. job[j] \in Running
  BY <1>0, <1>3, Pcs
<1>5. job'[j].kind = "stream" /\ job'[j] # Idle
  BY <1>0, <1>2, <1>3, <1>4 DEF Write, TypeOK, Running, Idle
<1>6. j \in Busy({"stream"})'
  BY <1>5 DEF Busy
<1>7. misled' \/ free' + Overdraft' >= Reserve + Cardinality(Owed')
  BY <1>6 DEF RInv, ReserveInv
<1>8. Cardinality(Owed') \in Nat
  <2>1. Owed' \in SUBSET Units(Jobs, MaxChunk)
    BY DEF Owed, Units
  <2>2. MaxChunk \in 0 .. MaxChunk
    OBVIOUS
  <2> QED  BY <2>1, <2>2, UnitsCounted, FS_Subset, FS_CardinalityType
<1>9. Overdraft \in Nat /\ Overdraft' = Overdraft
  BY OverdraftType DEF Overdraft
<1> QED  BY <1>0, <1>3, <1>7, <1>8, <1>9

\* However chunk requests pass the advisory check together, are served or
\* fail, what they take of the reserve is bounded by the slots, unless the
\* path led elsewhere when statfs was asked (storage.go CheckAvailable,
\* internal/uploads WriteChunk).
THEOREM ReserveKept == Spec => ReserveIsKept
<1>1. Spec => []RInv
  BY RInvInit, RInvStep, PTL DEF Spec
<1>2. RInv /\ RInv' /\ [Next]_vars =>
        [free' < free => misled \/ free' + Overdraft >= Reserve]_vars
  BY WritesLeaveTheReserve
<1> QED  BY <1>1, <1>2, PTL DEF Spec, ReserveIsKept
=============================================================================
