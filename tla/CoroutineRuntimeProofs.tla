----------------------- MODULE CoroutineRuntimeProofs -----------------------
(***************************************************************************)
(* What resuming and suspending do to the stacks of nested resume() calls. *)
(***************************************************************************)
EXTENDS CoroutineRuntime, TLAPS

(* Nested resume() calls only ever stack coroutines.                       *)
LEMMA StackTypes ==
  ASSUME StackTypeOK, NEW t \in Threads, NEW c \in Coroutines
  PROVE  /\ Resume(t, c) => StackTypeOK'
         /\ Running(t, c) /\ Return(t) => StackTypeOK'
         /\ \A b \in Coroutines : Running(t, b) /\ Transfer(t, c) => StackTypeOK'
         /\ UNCHANGED stack => StackTypeOK'
<1> USE DEF StackTypeOK
<1>1. ASSUME Resume(t, c) PROVE StackTypeOK'
  <2>1. <<c>> \o stack[t] \in Seq(Coroutines)  OBVIOUS
  <2> QED  BY <1>1, <2>1 DEF Resume
<1>2. ASSUME Running(t, c), Return(t) PROVE StackTypeOK'
  <2>1. Tail(stack[t]) \in Seq(Coroutines)  BY <1>2 DEF Running
  <2> QED  BY <1>2, <2>1 DEF Return
<1>3. ASSUME NEW b \in Coroutines, Running(t, b), Transfer(t, c) PROVE StackTypeOK'
  <2>1. <<c>> \o Tail(stack[t]) \in Seq(Coroutines)  BY <1>3 DEF Running
  <2> QED  BY <1>3, <2>1 DEF Transfer
<1> QED  BY <1>1, <1>2, <1>3

(* Pushing on, popping from and replacing the top of a stack, entry by     *)
(* entry.                                                                  *)
LEMMA StackEntries ==
  ASSUME StackTypeOK, NEW t \in Threads, NEW c \in Coroutines
  PROVE  /\ Resume(t, c) => \A u \in Threads : \A i \in 1..Len(stack'[u]) :
              \/ u = t /\ i = 1 /\ stack'[u][i] = c
              \/ u = t /\ i - 1 \in 1..Len(stack[u]) /\ stack'[u][i] = stack[u][i - 1]
              \/ u # t /\ i \in 1..Len(stack[u]) /\ stack'[u][i] = stack[u][i]
         /\ Running(t, c) /\ Return(t) => \A u \in Threads : \A i \in 1..Len(stack'[u]) :
              \/ u = t /\ i + 1 \in 1..Len(stack[u]) /\ stack'[u][i] = stack[u][i + 1]
              \/ u # t /\ i \in 1..Len(stack[u]) /\ stack'[u][i] = stack[u][i]
         /\ \A b \in Coroutines : Running(t, b) /\ Transfer(t, c) =>
              \A u \in Threads : \A i \in 1..Len(stack'[u]) :
                \/ u = t /\ i = 1 /\ stack'[u][i] = c
                \/ (u = t => i # 1) /\ i \in 1..Len(stack[u]) /\ stack'[u][i] = stack[u][i]
         /\ Running(t, c) => 1 \in 1..Len(stack[t]) /\ stack[t][1] = c
<1>0. stack[t] \in Seq(Coroutines)  BY DEF StackTypeOK
<1>1. ASSUME Resume(t, c)
      PROVE  \A u \in Threads : \A i \in 1..Len(stack'[u]) :
              \/ u = t /\ i = 1 /\ stack'[u][i] = c
              \/ u = t /\ i - 1 \in 1..Len(stack[u]) /\ stack'[u][i] = stack[u][i - 1]
              \/ u # t /\ i \in 1..Len(stack[u]) /\ stack'[u][i] = stack[u][i]
  <2>1. stack' = [stack EXCEPT ![t] = <<c>> \o stack[t]]  BY <1>1 DEF Resume
  <2> DEFINE new == <<c>> \o stack[t]
  <2>2. /\ Len(new) = 1 + Len(stack[t]) /\ Len(stack[t]) \in Nat
        /\ \A i \in 1..Len(new) : new[i] = IF i = 1 THEN c ELSE stack[t][i - 1]
    BY <1>0
  <2>3. stack'[t] = new /\ \A u \in Threads : u # t => stack'[u] = stack[u]
    BY <2>1 DEF StackTypeOK
  <2> HIDE DEF new
  <2> QED  BY <2>2, <2>3
<1>2. ASSUME Running(t, c), Return(t)
      PROVE  \A u \in Threads : \A i \in 1..Len(stack'[u]) :
              \/ u = t /\ i + 1 \in 1..Len(stack[u]) /\ stack'[u][i] = stack[u][i + 1]
              \/ u # t /\ i \in 1..Len(stack[u]) /\ stack'[u][i] = stack[u][i]
  <2>1. stack' = [stack EXCEPT ![t] = Tail(stack[t])]  BY <1>2 DEF Return
  <2> DEFINE new == Tail(stack[t])
  <2>2. /\ Len(new) = Len(stack[t]) - 1 /\ Len(stack[t]) \in Nat
        /\ \A i \in 1..Len(new) : new[i] = stack[t][i + 1]
    BY <1>0, <1>2 DEF Running
  <2>3. stack'[t] = new /\ \A u \in Threads : u # t => stack'[u] = stack[u]
    BY <2>1 DEF StackTypeOK
  <2> HIDE DEF new
  <2> QED  BY <2>2, <2>3
<1>3. ASSUME Running(t, c) PROVE 1 \in 1..Len(stack[t]) /\ stack[t][1] = c
  BY <1>0, <1>3 DEF Running
<1>4. ASSUME NEW b \in Coroutines, Running(t, b), Transfer(t, c)
      PROVE  \A u \in Threads : \A i \in 1..Len(stack'[u]) :
              \/ u = t /\ i = 1 /\ stack'[u][i] = c
              \/ (u = t => i # 1) /\ i \in 1..Len(stack[u]) /\ stack'[u][i] = stack[u][i]
  <2>1. stack' = [stack EXCEPT ![t] = <<c>> \o Tail(stack[t])]  BY <1>4 DEF Transfer
  <2> DEFINE rest == Tail(stack[t])  new == <<c>> \o rest
  <2>2. /\ rest \in Seq(Coroutines) /\ Len(rest) = Len(stack[t]) - 1 /\ Len(stack[t]) \in Nat
        /\ \A i \in 1..Len(rest) : rest[i] = stack[t][i + 1]
    BY <1>0, <1>4 DEF Running
  <2>3. stack'[t] = new /\ \A u \in Threads : u # t => stack'[u] = stack[u]
    BY <2>1 DEF StackTypeOK
  <2> HIDE DEF rest
  <2>4. /\ Len(new) = 1 + Len(rest)
        /\ \A i \in 1..Len(new) : new[i] = IF i = 1 THEN c ELSE rest[i - 1]
    BY <2>2
  <2> HIDE DEF new
  <2>5. ASSUME NEW i \in 1..Len(new), i # 1 PROVE i \in 1..Len(stack[t]) /\ new[i] = stack[t][i]
    <3>1. i - 1 \in 1..Len(rest) /\ new[i] = rest[i - 1]  BY <2>2, <2>4, <2>5
    <3> QED  BY <2>2, <3>1
  <2> QED  BY <2>3, <2>4, <2>5
<1> QED  BY <1>1, <1>2, <1>3, <1>4

(* Resuming a coroutine that is on no stack, and suspending the running    *)
(* one, leave every coroutine on at most one stack.                        *)
LEMMA ResumeKeepsStacks ==
  ASSUME StackTypeOK, NoDoubleResume, NEW t \in Threads, NEW c \in Coroutines, Resume(t, c),
         \A u \in Threads : \A i \in 1..Len(stack[u]) : stack[u][i] # c
  PROVE  NoDoubleResume'
<1>1. StackTypeOK'  BY StackTypes
<1>2. \A u \in Threads : Len(stack[u]) \in Nat /\ Len(stack'[u]) \in Nat
  BY <1>1 DEF StackTypeOK
<1> SUFFICES ASSUME NEW u \in Threads, NEW v \in Threads,
                    NEW i \in 1..Len(stack'[u]), NEW j \in 1..Len(stack'[v]),
                    stack'[u][i] = stack'[v][j]
             PROVE  u = v /\ i = j
  BY DEF NoDoubleResume
<1>3. \/ u = t /\ i = 1 /\ stack'[u][i] = c
      \/ \E k \in 1..Len(stack[u]) :
           k = (IF u = t THEN i - 1 ELSE i) /\ stack'[u][i] = stack[u][k]
  BY StackEntries
<1>4. \/ v = t /\ j = 1 /\ stack'[v][j] = c
      \/ \E l \in 1..Len(stack[v]) :
           l = (IF v = t THEN j - 1 ELSE j) /\ stack'[v][j] = stack[v][l]
  BY StackEntries
<1>5. ASSUME NEW k \in 1..Len(stack[u]), NEW l \in 1..Len(stack[v]), stack[u][k] = stack[v][l]
      PROVE  u = v /\ k = l
  BY <1>5 DEF NoDoubleResume
<1> QED  BY <1>2, <1>3, <1>4, <1>5

LEMMA ReturnKeepsStacks ==
  ASSUME StackTypeOK, NoDoubleResume, NEW t \in Threads, NEW c \in Coroutines,
         Running(t, c), Return(t)
  PROVE  /\ NoDoubleResume'
         /\ \A u \in Threads : \A i \in 1..Len(stack'[u]) : stack'[u][i] # c
<1>1. StackTypeOK'  BY StackTypes
<1>2. \A u \in Threads : Len(stack[u]) \in Nat /\ Len(stack'[u]) \in Nat
  BY <1>1 DEF StackTypeOK
<1>3. 1 \in 1..Len(stack[t]) /\ stack[t][1] = c  BY StackEntries
<1>4. NoDoubleResume'
  <2> SUFFICES ASSUME NEW u \in Threads, NEW v \in Threads,
                      NEW i \in 1..Len(stack'[u]), NEW j \in 1..Len(stack'[v]),
                      stack'[u][i] = stack'[v][j]
               PROVE  u = v /\ i = j
    BY DEF NoDoubleResume
  <2>1. PICK k \in 1..Len(stack[u]) :
          k = (IF u = t THEN i + 1 ELSE i) /\ stack'[u][i] = stack[u][k]
    BY StackEntries
  <2>2. PICK l \in 1..Len(stack[v]) :
          l = (IF v = t THEN j + 1 ELSE j) /\ stack'[v][j] = stack[v][l]
    BY StackEntries
  <2>3. stack[u][k] = stack[v][l]  BY <2>1, <2>2
  <2>4. u = v /\ k = l  BY <2>3 DEF NoDoubleResume
  <2> QED  BY <1>2, <2>1, <2>2, <2>4
<1>5. ASSUME NEW u \in Threads, NEW i \in 1..Len(stack'[u]) PROVE stack'[u][i] # c
  BY <1>2, <1>3, StackEntries DEF NoDoubleResume
<1> QED  BY <1>4, <1>5

(* So does running a coroutine that is on no stack in place of another.    *)
LEMMA TransferKeepsStacks ==
  ASSUME StackTypeOK, NoDoubleResume, NEW t \in Threads, NEW b \in Coroutines,
         NEW c \in Coroutines, Running(t, b), Transfer(t, c),
         \A u \in Threads : \A i \in 1..Len(stack[u]) : stack[u][i] # c
  PROVE  /\ NoDoubleResume'
         /\ \A u \in Threads : \A i \in 1..Len(stack'[u]) :
              \/ stack'[u][i] = c
              \/ stack'[u][i] # b /\ \E k \in 1..Len(stack[u]) : stack'[u][i] = stack[u][k]
<1>1. StackTypeOK'  BY StackTypes
<1>2. \A u \in Threads : Len(stack[u]) \in Nat /\ Len(stack'[u]) \in Nat
  BY <1>1 DEF StackTypeOK
<1>3. 1 \in 1..Len(stack[t]) /\ stack[t][1] = b  BY StackEntries
<1>4. \A u \in Threads : \A i \in 1..Len(stack'[u]) :
         \/ u = t /\ i = 1 /\ stack'[u][i] = c
         \/ (u = t => i # 1) /\ i \in 1..Len(stack[u]) /\ stack'[u][i] = stack[u][i]
  BY StackEntries
<1>5. NoDoubleResume'  BY <1>4 DEF NoDoubleResume
<1>6. ASSUME NEW u \in Threads, NEW i \in 1..Len(stack'[u]), stack'[u][i] # c
      PROVE  stack'[u][i] # b /\ \E k \in 1..Len(stack[u]) : stack'[u][i] = stack[u][k]
  BY <1>3, <1>4, <1>6 DEF NoDoubleResume
<1> QED  BY <1>5, <1>6

(* What the steps of a component do to its stacks: a step resumes one of   *)
(* the coroutines that are suspended, suspends the one that runs, lets one *)
(* that is suspended run in its place, or leaves the stacks alone.  Before *)
(* and After are the coroutines that are not suspended.                    *)
LEMMA StacksFollow ==
  ASSUME StackTypeOK, NoDoubleResume, NEW t \in Threads, NEW c \in Coroutines,
         NEW Before, NEW After,
         \A u \in Threads : \A i \in 1..Len(stack[u]) : stack[u][i] \in Before,
         \/ UNCHANGED stack /\ Before \subseteq After
         \/ Resume(t, c) /\ c \notin Before /\ Before \cup {c} \subseteq After
         \/ Running(t, c) /\ Return(t) /\ Before \ {c} \subseteq After
         \/ \E b \in Coroutines :
              /\ Running(t, b) /\ Transfer(t, c)
              /\ c \notin Before /\ c \in After /\ Before \ {b} \subseteq After
  PROVE  /\ NoDoubleResume'
         /\ \A u \in Threads : \A i \in 1..Len(stack'[u]) : stack'[u][i] \in After
<1>1. CASE UNCHANGED stack /\ Before \subseteq After
  BY <1>1 DEF NoDoubleResume
<1>2. CASE Resume(t, c) /\ c \notin Before /\ Before \cup {c} \subseteq After
  <2>1. \A u \in Threads : \A i \in 1..Len(stack[u]) : stack[u][i] # c  BY <1>2
  <2>2. NoDoubleResume'  BY <1>2, <2>1, ResumeKeepsStacks
  <2>3. ASSUME NEW u \in Threads, NEW i \in 1..Len(stack'[u])
        PROVE  stack'[u][i] = c \/ \E k \in 1..Len(stack[u]) : stack'[u][i] = stack[u][k]
    BY <1>2, StackEntries
  <2> QED  BY <1>2, <2>2, <2>3
<1>3. CASE Running(t, c) /\ Return(t) /\ Before \ {c} \subseteq After
  <2>1. NoDoubleResume' /\ \A u \in Threads : \A i \in 1..Len(stack'[u]) : stack'[u][i] # c
    BY <1>3, ReturnKeepsStacks
  <2>2. ASSUME NEW u \in Threads, NEW i \in 1..Len(stack'[u])
        PROVE  \E k \in 1..Len(stack[u]) : stack'[u][i] = stack[u][k]
    BY <1>3, StackEntries
  <2> QED  BY <1>3, <2>1, <2>2
<1>4. ASSUME NEW b \in Coroutines, Running(t, b), Transfer(t, c),
             c \notin Before, c \in After, Before \ {b} \subseteq After
      PROVE  /\ NoDoubleResume'
             /\ \A u \in Threads : \A i \in 1..Len(stack'[u]) : stack'[u][i] \in After
  <2>1. \A u \in Threads : \A i \in 1..Len(stack[u]) : stack[u][i] # c  BY <1>4
  <2> QED  BY <1>4, <2>1, TransferKeepsStacks
<1> QED  BY <1>1, <1>2, <1>3, <1>4
=============================================================================
