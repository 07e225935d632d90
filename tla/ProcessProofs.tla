---------------------------- MODULE ProcessProofs ---------------------------
(***************************************************************************)
(* Proofs about module Process for any number of processes and any exit    *)
(* codes.                                                                  *)
(***************************************************************************)
EXTENDS Process, TLAPS

\* Zenon proves most steps; the others say which prover they need.
USE Zenon

Types ==
  /\ pc \in [Proc -> Label]
  /\ parent \in [Proc -> Proc \cup {NULL}]
  /\ exit_status \in [Proc -> Int]
  /\ load_sema \in [Proc -> Nat] /\ wait_sema \in [Proc -> Nat]
  /\ loaded \in [Proc -> {"pending", "true", "false"}]
  /\ child \in [Proc -> Proc \cup {NULL}]
  /\ result = [p \in Proc |-> result[p]]

\* Main starts one process, waits for it, and calls nothing else.
MainWaits ==
  /\ pc[Main] \in {"boot", "wait", "wait_read", "off"}
  /\ pc[Main] = "boot" => wait_sema[Main] = 0
  /\ \A c \in Proc : parent[c] = Main => pc[Main] # "boot" /\ c = child[Main]
  /\ pc[Main] # "boot" =>
       /\ child[Main] \in Proc /\ pc[child[Main]] # "none"
       /\ pc[child[Main]] \in Loading => wait_sema[Main] = 0

\* The parent of a process that is loading sleeps in exec, or is Main, and
\* the process is the child it waits for.
Handshake ==
  \A c \in Proc :
    /\ pc[c] # "none" /\ c # Main => parent[c] \in Proc
    /\ pc[c] \in Loading =>
         /\ parent[c] \in Proc /\ parent[c] # c /\ child[parent[c]] = c
         /\ pc[parent[c]] = IF parent[c] = Main THEN "wait" ELSE "exec_load"

\* load_sema holds a unit only between the child's load and the parent's down.
OneUnit ==
  \A p \in Proc : p # Main =>
    /\ pc[p] # "exec_load" => load_sema[p] = 0
    /\ pc[p] = "exec_load" =>
         /\ child[p] \in Proc /\ pc[child[p]] # "none"
         /\ load_sema[p] > 0 => /\ load_sema[p] = 1
                                /\ pc[child[p]] \notin Loading
                                /\ loaded[child[p]] # "pending"
    /\ pc[p] = "exec_check" => child[p] \in Proc /\ loaded[child[p]] # "pending"

\* How load's result, the exit status and the place of a process are related.
Outcome ==
  \A c \in Proc :
    /\ pc[c] \in {"none", "load", "load_file", "load_fail"} => loaded[c] = "pending"
    /\ pc[c] = "load_up" => loaded[c] # "pending"
    /\ loaded[c] = "false" =>
         /\ exit_status[c] = SYSCALL_ERROR
         /\ pc[c] \in {"load_up", "loaded"} \/ Leaving(c)
    /\ exit_status[c] = SYSCALL_ERROR => loaded[c] = "false" \/ Leaving(c)

\* What exec has returned stays right.
Reported ==
  \A p \in Proc : result[p].call = "exec" =>
    /\ result[p].child \in Proc
    /\ IF result[p].failed
       THEN loaded[result[p].child] = "false" \/ Leaving(result[p].child)
       ELSE loaded[result[p].child] = "true"

IInv == Types /\ MainWaits /\ Handshake /\ OneUnit /\ Outcome /\ Reported

\* Init establishes the invariant.
LEMMA InitIInv == Init => IInv
<1> SUFFICES ASSUME Init PROVE IInv
  OBVIOUS
<1> USE ProcessAssumption DEF Init, Proc, Main, NULL, UNUSED_CHILD_EXIT_STATUS, NoResult
<1>1. Types
  BY SMT DEF Types, Label
<1>2. MainWaits /\ Handshake /\ OneUnit
  BY SMT DEF MainWaits, Handshake, OneUnit, Loading
<1>3. Outcome /\ Reported
  BY SMT DEF Outcome, Reported, SYSCALL_ERROR
<1>4. QED
  BY <1>1, <1>2, <1>3 DEF IInv

\* The invariant is inductive.
LEMMA StepIInv == IInv /\ [Next]_vars => IInv'
<1> SUFFICES ASSUME IInv, [Next]_vars PROVE IInv'
  OBVIOUS
<1>0. Main \in Proc /\ NULL \notin Proc /\ Main # NULL
  BY ProcessAssumption, SMT DEF Main, Proc, NULL
<1> USE <1>0 DEF IInv, Types, At, Goto, Leaving, Announced, Loading
<1>1. CASE UNCHANGED vars
  BY <1>1, SMT DEF vars, MainWaits, Handshake, OneUnit, Outcome, Reported
<1>2. ASSUME RunTask PROVE IInv'
  <2>0. PICK c \in Proc : At(Main, "boot") /\ ThreadCreate(Main, c, "wait")
    BY <1>2 DEF RunTask
  <2> USE <2>0 DEF UNUSED_CHILD_EXIT_STATUS, SYSCALL_ERROR
  <2>1. c # Main
    BY DEF MainWaits, At, ThreadCreate
  <2>2. /\ pc'[Main] = "wait" /\ pc'[c] = "load" /\ pc[c] = "none"
        /\ \A q \in Proc : q # Main /\ q # c => pc'[q] = pc[q]
        /\ \A q \in Proc : parent'[q] = IF q = c THEN Main ELSE parent[q]
        /\ \A q \in Proc : child'[q] = IF q = Main THEN c ELSE child[q]
    BY <2>1 DEF ThreadCreate
  <2>3. Types'
    <3>1. pc' \in [Proc -> Label]
      BY DEF ThreadCreate, Label
    <3>2. parent' \in [Proc -> Proc \cup {NULL}] /\ child' \in [Proc -> Proc \cup {NULL}]
      BY DEF ThreadCreate
    <3>3. exit_status' \in [Proc -> Int]
      BY SMT DEF ThreadCreate
    <3>4. QED
      BY <3>1, <3>2, <3>3 DEF ThreadCreate
  <2>4. MainWaits'
    BY <2>1, <2>2 DEF ThreadCreate, MainWaits
  <2>5. Handshake'
    BY <2>1, <2>2, SMT DEF Handshake, MainWaits
  <2>6. OneUnit'
    BY <2>1, <2>2, SMT DEF ThreadCreate, OneUnit, Handshake, Outcome, MainWaits
  <2>7. Outcome'
    BY <2>1, <2>2, SMT DEF ThreadCreate, Outcome
  <2>8. Reported'
    BY <2>1, <2>2, ZenonT(30) DEF ThreadCreate, Reported, Outcome, OneUnit
  <2>9. QED
    BY <2>3, <2>4, <2>5, <2>6, <2>7, <2>8
<1>3. ASSUME NEW p \in Proc, Exec(p) PROVE IInv'
  <2>0. PICK c \in Proc : At(p, "exec") /\ ThreadCreate(p, c, "exec_load")
    BY <1>3 DEF Exec
  <2> USE <2>0 DEF UNUSED_CHILD_EXIT_STATUS, SYSCALL_ERROR
  <2>1. p # c /\ c # Main /\ p # Main
    BY DEF MainWaits, At, ThreadCreate
  <2>2. /\ pc'[p] = "exec_load" /\ pc'[c] = "load" /\ pc[c] = "none"
        /\ \A q \in Proc : q # p /\ q # c => pc'[q] = pc[q]
        /\ \A q \in Proc : parent'[q] = IF q = c THEN p ELSE parent[q]
        /\ \A q \in Proc : child'[q] = IF q = p THEN c ELSE child[q]
    BY <2>1 DEF ThreadCreate
  <2>3. Types'
    <3>1. pc' \in [Proc -> Label]
      BY DEF ThreadCreate, Label
    <3>2. parent' \in [Proc -> Proc \cup {NULL}] /\ child' \in [Proc -> Proc \cup {NULL}]
      BY DEF ThreadCreate
    <3>3. exit_status' \in [Proc -> Int]
      BY SMT DEF ThreadCreate
    <3>4. QED
      BY <3>1, <3>2, <3>3 DEF ThreadCreate
  <2>4. MainWaits'
    BY <2>1, <2>2 DEF ThreadCreate, MainWaits
  <2>5. Handshake'
    BY <2>1, <2>2, SMT DEF Handshake, MainWaits
  <2>6. OneUnit'
    <3> SUFFICES ASSUME NEW q \in Proc, q # Main
                 PROVE  /\ pc'[q] # "exec_load" => load_sema'[q] = 0
                        /\ pc'[q] = "exec_load" =>
                             /\ child'[q] \in Proc /\ pc'[child'[q]] # "none"
                             /\ load_sema'[q] > 0 =>
                                  /\ load_sema'[q] = 1
                                  /\ pc'[child'[q]] \notin Loading
                                  /\ loaded'[child'[q]] # "pending"
                        /\ pc'[q] = "exec_check" =>
                             child'[q] \in Proc /\ loaded'[child'[q]] # "pending"
      BY DEF OneUnit
    <3>1. load_sema' = load_sema /\ loaded' = loaded
      BY DEF ThreadCreate
    <3>2. CASE q = p
      BY <2>1, <2>2, <3>1, <3>2, SMT DEF OneUnit
    <3>3. CASE q = c
      BY <2>1, <2>2, <3>1, <3>3 DEF OneUnit
    <3>4. CASE q # p /\ q # c
      BY <2>1, <2>2, <3>1, <3>4, SMT DEF OneUnit, Outcome
    <3>5. QED
      BY <3>2, <3>3, <3>4
  <2>7. Outcome'
    BY <2>1, <2>2, SMTT(30) DEF ThreadCreate, Outcome
  <2>8. Reported'
    BY <2>1, <2>2, ZenonT(30) DEF ThreadCreate, Reported, Outcome, OneUnit
  <2>9. QED
    BY <2>3, <2>4, <2>5, <2>6, <2>7, <2>8
<1>4. ASSUME NEW p \in Proc, ExecNoMemory(p) PROVE IInv'
  <2> USE <1>4 DEF ExecNoMemory, SYSCALL_ERROR
  <2>1. Types'
    BY SMT DEF Label
  <2>2. MainWaits'
    BY DEF MainWaits
  <2>3. Handshake'
    BY SMT DEF Handshake, MainWaits
  <2>4. OneUnit'
    BY SMT DEF OneUnit, Handshake, Outcome, MainWaits
  <2>5. Outcome'
    BY DEF Outcome
  <2>6. Reported'
    BY DEF Reported, Outcome, OneUnit
  <2>7. QED
    BY <2>1, <2>2, <2>3, <2>4, <2>5, <2>6
<1>5. ASSUME NEW p \in Proc, ExecLoadDown(p) PROVE IInv'
  <2> USE <1>5 DEF ExecLoadDown
  <2>1. Types'
    BY SMT DEF Label
  <2>2. MainWaits'
    BY DEF MainWaits
  <2>3. Handshake'
    BY SMT DEF Handshake, MainWaits, OneUnit
  <2>4. OneUnit'
    BY SMT DEF OneUnit, Handshake, Outcome, MainWaits
  <2>5. Outcome'
    BY DEF Outcome
  <2>6. Reported'
    BY DEF Reported, Outcome, OneUnit
  <2>7. QED
    BY <2>1, <2>2, <2>3, <2>4, <2>5, <2>6
<1>6. ASSUME NEW p \in Proc, ExecReturn(p) PROVE IInv'
  <2> USE <1>6 DEF ExecReturn
  <2>1. Types'
    BY DEF Label
  <2>2. MainWaits'
    BY DEF MainWaits
  <2>3. Handshake'
    BY SMT DEF Handshake, MainWaits
  <2>4. OneUnit'
    BY SMT DEF OneUnit, Handshake, Outcome, MainWaits
  <2>5. Outcome'
    BY DEF Outcome
  <2>6. Reported'
    <3>1. p # Main /\ child[p] \in Proc /\ loaded[child[p]] # "pending"
      BY DEF MainWaits, OneUnit
    <3>2. IF exit_status[child[p]] = SYSCALL_ERROR
          THEN loaded[child[p]] = "false" \/ Leaving(child[p])
          ELSE loaded[child[p]] = "true"
      BY <3>1 DEF Outcome
    <3>3. /\ result'[p].child = child[p]
          /\ result'[p].failed <=> exit_status[child[p]] = SYSCALL_ERROR
          /\ \A q \in Proc : q # p => result'[q] = result[q]
      OBVIOUS
    <3>4. \A q \in Proc : Leaving(q) => Leaving(q)'
      OBVIOUS
    <3>5. QED
      BY <3>1, <3>2, <3>3, <3>4, SMT DEF Reported
  <2>7. QED
    BY <2>1, <2>2, <2>3, <2>4, <2>5, <2>6
<1>7. ASSUME NEW p \in Proc, LoadOpen(p) PROVE IInv'
  <2> USE <1>7 DEF LoadOpen
  <2>1. Types'
    BY DEF Label
  <2>2. MainWaits'
    BY DEF MainWaits
  <2>3. Handshake'
    BY SMT DEF Handshake, MainWaits
  <2>4. OneUnit'
    BY SMT DEF OneUnit, Handshake, Outcome, MainWaits
  <2>5. Outcome'
    BY DEF Outcome
  <2>6. Reported'
    BY SMT DEF Reported, Outcome, OneUnit
  <2>7. QED
    BY <2>1, <2>2, <2>3, <2>4, <2>5, <2>6
<1>8. ASSUME NEW p \in Proc, LoadFile(p) PROVE IInv'
  <2> USE <1>8 DEF LoadFile
  <2>1. Types'
    BY DEF Label
  <2>2. MainWaits'
    BY DEF MainWaits
  <2>3. Handshake'
    BY SMT DEF Handshake, MainWaits
  <2>4. OneUnit'
    BY SMT DEF OneUnit, Handshake, Outcome, MainWaits
  <2>5. Outcome'
    BY SMT DEF Outcome
  <2>6. Reported'
    BY SMT DEF Reported, Outcome, OneUnit
  <2>7. QED
    BY <2>1, <2>2, <2>3, <2>4, <2>5, <2>6
<1>9. ASSUME NEW p \in Proc, LoadKilled(p) PROVE IInv'
  <2> USE <1>9 DEF LoadKilled, SYSCALL_ERROR
  <2>1. Types'
    BY SMT DEF Label
  <2>2. MainWaits'
    BY DEF MainWaits
  <2>3. Handshake'
    BY SMT DEF Handshake, MainWaits
  <2>4. OneUnit'
    BY SMT DEF OneUnit, Handshake, Outcome, MainWaits
  <2>5. Outcome'
    BY DEF Outcome
  <2>6. Reported'
    BY DEF Reported, Outcome, OneUnit
  <2>7. QED
    BY <2>1, <2>2, <2>3, <2>4, <2>5, <2>6
<1>10. ASSUME NEW p \in Proc, LoadFail(p) PROVE IInv'
  <2> USE <1>10 DEF LoadFail, SYSCALL_ERROR
  <2>1. Types'
    BY SMT DEF Label
  <2>2. MainWaits'
    BY DEF MainWaits
  <2>3. Handshake'
    BY SMT DEF Handshake, MainWaits
  <2>4. OneUnit'
    BY SMT DEF OneUnit, Handshake, Outcome, MainWaits
  <2>5. Outcome'
    BY DEF Outcome
  <2>6. Reported'
    BY DEF Reported, Outcome, OneUnit
  <2>7. QED
    BY <2>1, <2>2, <2>3, <2>4, <2>5, <2>6
<1>11. ASSUME NEW p \in Proc, LoadUp(p) PROVE IInv'
  <2> USE <1>11 DEF LoadUp, UpMember
  <2>1. Types'
    BY SMT DEF Label
  <2>2. MainWaits'
    BY DEF MainWaits, Handshake
  <2>3. Handshake'
    BY SMT DEF Handshake, MainWaits
  <2>4. OneUnit'
    BY SMT DEF OneUnit, Handshake, Outcome, MainWaits
  <2>5. Outcome'
    BY DEF Outcome
  <2>6. Reported'
    BY DEF Reported, Outcome, OneUnit
  <2>7. QED
    BY <2>1, <2>2, <2>3, <2>4, <2>5, <2>6
<1>12. ASSUME NEW p \in Proc, StartProcess(p) PROVE IInv'
  <2> USE <1>12 DEF StartProcess, SYSCALL_ERROR
  <2>1. Types'
    BY SMT DEF Label
  <2>2. MainWaits'
    BY DEF MainWaits
  <2>3. Handshake'
    BY SMT DEF Handshake, MainWaits
  <2>4. OneUnit'
    BY SMT DEF OneUnit, Handshake, Outcome, MainWaits
  <2>5. Outcome'
    BY SMT DEF Outcome
  <2>6. Reported'
    BY SMT DEF Reported, Outcome, OneUnit
  <2>7. QED
    BY <2>1, <2>2, <2>3, <2>4, <2>5, <2>6
<1>13. ASSUME NEW p \in Proc, WaitDown(p) PROVE IInv'
  <2> USE <1>13 DEF WaitDown, ChildGone
  <2>1. Types'
    BY SMT DEF Label
  <2>2. MainWaits'
    BY SMT DEF MainWaits, Handshake
  <2>3. Handshake'
    BY SMT DEF Handshake, MainWaits
  <2>4. OneUnit'
    BY SMT DEF OneUnit, Handshake, Outcome, MainWaits
  <2>5. Outcome'
    BY DEF Outcome
  <2>6. Reported'
    BY DEF Reported, Outcome, OneUnit
  <2>7. QED
    BY <2>1, <2>2, <2>3, <2>4, <2>5, <2>6
<1>14. ASSUME NEW p \in Proc, WaitReturn(p) PROVE IInv'
  <2> USE <1>14 DEF WaitReturn
  <2>1. Types'
    BY DEF Label
  <2>2. MainWaits'
    BY DEF MainWaits
  <2>3. Handshake'
    BY SMT DEF Handshake, MainWaits
  <2>4. OneUnit'
    BY SMT DEF OneUnit, Handshake, Outcome, MainWaits
  <2>5. Outcome'
    BY DEF Outcome
  <2>6. Reported'
    BY SMT DEF Reported, Outcome, OneUnit
  <2>7. QED
    BY <2>1, <2>2, <2>3, <2>4, <2>5, <2>6
<1>15. ASSUME NEW p \in Proc, ExitUp(p) PROVE IInv'
  <2> USE <1>15 DEF ExitUp, UpMember
  <2>1. Types'
    BY SMT DEF Label
  <2>2. MainWaits'
    BY SMT DEF MainWaits, Handshake
  <2>3. Handshake'
    BY SMT DEF Handshake, MainWaits
  <2>4. OneUnit'
    BY SMT DEF OneUnit, Handshake, Outcome, MainWaits
  <2>5. Outcome'
    BY DEF Outcome
  <2>6. Reported'
    BY DEF Reported, Outcome, OneUnit
  <2>7. QED
    BY <2>1, <2>2, <2>3, <2>4, <2>5, <2>6
<1>16. ASSUME NEW p \in Proc, ExitClose(p) PROVE IInv'
  <2> USE <1>16 DEF ExitClose
  <2>1. Types'
    BY DEF Label
  <2>2. MainWaits'
    BY DEF MainWaits
  <2>3. Handshake'
    BY SMT DEF Handshake, MainWaits
  <2>4. OneUnit'
    BY SMT DEF OneUnit, Handshake, Outcome, MainWaits
  <2>5. Outcome'
    BY DEF Outcome
  <2>6. Reported'
    BY DEF Reported, Outcome, OneUnit
  <2>7. QED
    BY <2>1, <2>2, <2>3, <2>4, <2>5, <2>6
<1>17. ASSUME NEW p \in Proc, ExitDie(p) PROVE IInv'
  <2> USE <1>17 DEF ExitDie, NoResult
  <2>1. Types'
    BY DEF Label
  <2>2. MainWaits'
    BY SMT DEF MainWaits, Handshake
  <2>3. Handshake'
    BY SMT DEF Handshake, MainWaits
  <2>4. OneUnit'
    BY SMT DEF OneUnit, Handshake, Outcome, MainWaits
  <2>5. Outcome'
    BY DEF Outcome
  <2>6. Reported'
    BY DEF Reported, Outcome, OneUnit
  <2>7. QED
    BY <2>1, <2>2, <2>3, <2>4, <2>5, <2>6
<1>18. ASSUME NEW p \in Proc, CallExec(p) PROVE IInv'
  <2> USE <1>18 DEF CallExec
  <2>1. Types'
    BY DEF Label
  <2>2. MainWaits'
    BY DEF MainWaits
  <2>3. Handshake'
    BY SMT DEF Handshake, MainWaits
  <2>4. OneUnit'
    BY SMT DEF OneUnit, Handshake, Outcome, MainWaits
  <2>5. Outcome'
    BY DEF Outcome
  <2>6. Reported'
    BY DEF Reported, Outcome, OneUnit
  <2>7. QED
    BY <2>1, <2>2, <2>3, <2>4, <2>5, <2>6
<1>19. ASSUME NEW p \in Proc, ExecRefused(p) PROVE IInv'
  <2> USE <1>19 DEF ExecRefused, NoResult
  <2>1. Types'
    BY DEF Label
  <2>2. MainWaits'
    BY DEF MainWaits
  <2>3. Handshake'
    BY DEF Handshake, MainWaits
  <2>4. OneUnit'
    BY DEF OneUnit, Handshake, Outcome, MainWaits
  <2>5. Outcome'
    BY DEF Outcome
  <2>6. Reported'
    BY DEF Reported, Outcome, OneUnit
  <2>7. QED
    BY <2>1, <2>2, <2>3, <2>4, <2>5, <2>6
<1>20. ASSUME NEW p \in Proc, Exit(p) PROVE IInv'
  <2> USE <1>20 DEF Exit, StoreStatus, SYSCALL_ERROR
  <2>1. Types'
    BY ProcessAssumption, SMT DEF Label
  <2>2. MainWaits'
    BY DEF MainWaits
  <2>3. Handshake'
    BY SMT DEF Handshake, MainWaits
  <2>4. OneUnit'
    BY SMT DEF OneUnit, Handshake, Outcome, MainWaits
  <2>5. Outcome'
    BY DEF Outcome
  <2>6. Reported'
    BY DEF Reported, Outcome, OneUnit
  <2>7. QED
    BY <2>1, <2>2, <2>3, <2>4, <2>5, <2>6
<1>21. ASSUME NEW p \in Proc, Halt(p) PROVE IInv'
  <2> USE <1>21 DEF Halt
  <2>1. Types'
    BY DEF Label
  <2>2. MainWaits'
    BY DEF MainWaits
  <2>3. Handshake'
    BY DEF Handshake, MainWaits
  <2>4. OneUnit'
    BY DEF OneUnit, Handshake, Outcome, MainWaits
  <2>5. Outcome'
    BY DEF Outcome
  <2>6. Reported'
    BY DEF Reported, Outcome, OneUnit
  <2>7. QED
    BY <2>1, <2>2, <2>3, <2>4, <2>5, <2>6
<1>22. ASSUME NEW p \in Proc, NEW c \in Proc, CallWait(p, c) PROVE IInv'
  <2> USE <1>22 DEF CallWait, NoResult
  <2>1. Types'
    BY DEF Label
  <2>2. MainWaits'
    BY SMT DEF MainWaits
  <2>3. Handshake'
    BY SMT DEF Handshake, MainWaits
  <2>4. OneUnit'
    BY SMT DEF OneUnit, Handshake, Outcome, MainWaits
  <2>5. Outcome'
    BY DEF Outcome
  <2>6. Reported'
    BY SMTT(30) DEF Reported, Outcome, OneUnit
  <2>7. QED
    BY <2>1, <2>2, <2>3, <2>4, <2>5, <2>6
<1>23. QED
  BY <1>1, <1>2, <1>3, <1>4, <1>5, <1>6, <1>7, <1>8, <1>9, <1>10, <1>11, <1>12, <1>13, <1>14,
     <1>15, <1>16, <1>17, <1>18, <1>19, <1>20, <1>21, <1>22 DEF Next, KernelStep, UserStep

\* exec's handshake with the load of its child, for any number of processes
\* that start, load, fail, exit and wait in any order: exec looks at the status
\* of its child only after that child's load, and reports what the load did.
THEOREM ExecReportsLoad == Spec => []ExecSeesItsOwnLoad
<1>1. IInv => ExecSeesItsOwnLoad
  <2> SUFFICES ASSUME IInv, NEW p \in Proc
               PROVE  /\ pc[p] = "exec_check" => loaded[child[p]] # "pending"
                      /\ result[p].call = "exec" =>
                           IF result[p].failed
                           THEN loaded[result[p].child] = "false" \/ Leaving(result[p].child)
                           ELSE loaded[result[p].child] = "true"
                      /\ pc[p] \in Loading => pc[parent[p]] \in {"exec_load", "wait"}
    BY DEF ExecSeesItsOwnLoad
  <2> QED
    BY DEF IInv, MainWaits, OneUnit, Reported, Handshake
<1>2. QED
  BY InitIInv, StepIInv, <1>1, PTL DEF Spec

(***************************************************************************)
(* The accounting of process_wait.                                         *)
(***************************************************************************)
INSTANCE FiniteSetTheorems

Distinct(s) == \A i, j \in DOMAIN s : s[i] = s[j] => i = j

\* A list of children holds children, each once, and the one that is being
\* waited for.
Listed ==
  \A p \in Proc :
    /\ pc[p] = "none" => parent[p] = NULL
    /\ Distinct(children[p]) /\ Elems(children[p]) \subseteq ChildrenOf(p)
    /\ pc[p] \in {"wait", "wait_read"} => child[p] \in Elems(children[p])

\* Who leaves has left a status.
Stored == \A c \in Proc : Leaving(c) => exit_status[c] # UNUSED_CHILD_EXIT_STATUS

Paid(p) == ChildrenOf(p) \ Elems(children[p])
Told(p) == {c \in ChildrenOf(p) : pc[c] \in Announced}
Taken(p) == IF pc[p] = "wait_read" THEN 1 ELSE 0

Balanced(p) == wait_sema[p] + Cardinality(Paid(p)) + Taken(p) = Cardinality(Told(p))

Accounts == \A p \in Proc : pc[p] # "dead" => Balanced(p)

AInv == TypeOK /\ Listed /\ Accounts

\* list_remove takes one element out.
LEMMA WithoutOne ==
  ASSUME NEW s \in Seq(Proc), Distinct(s), NEW i \in DOMAIN s
  PROVE  /\ Without(s, i) \in Seq(Proc) /\ Distinct(Without(s, i))
         /\ Elems(Without(s, i)) = Elems(s) \ {s[i]}
<1> DEFINE n == Len(s)
           a == SubSeq(s, 1, i - 1)
           b == SubSeq(s, i + 1, n)
           w == a \o b
<1>1. n \in Nat /\ DOMAIN s = 1 .. n /\ i \in 1 .. n
  BY SMT
<1>2. a \in Seq(Proc) /\ Len(a) = i - 1 /\ \A j \in 1 .. i - 1 : a[j] = s[j]
  BY <1>1, SMT
<1>3. b \in Seq(Proc) /\ Len(b) = n - i /\ \A j \in 1 .. n - i : b[j] = s[j + i]
  BY <1>1, SMT
<1> HIDE DEF a, b, n
<1>4. w \in Seq(Proc) /\ Len(w) = n - 1 /\ DOMAIN w = 1 .. n - 1
  <2>1. w \in Seq(Proc)
    BY <1>2, <1>3, SMT
  <2>4. ASSUME NEW x \in Seq(Proc), NEW y \in Seq(Proc)
        PROVE  Len(x \o y) = Len(x) + Len(y)
    BY SMT
  <2>5. Len(w) = Len(a) + Len(b)
    BY <1>2, <1>3, <2>4
  <2> HIDE DEF w
  <2>2. Len(w) = n - 1
    BY <1>1, <1>2, <1>3, <2>5, SMT
  <2>3. QED
    BY <2>1, <2>2, SMT
<1>5. ASSUME NEW j \in 1 .. n - 1
      PROVE  w[j] = IF j < i THEN s[j] ELSE s[j + 1]
  <2>1. CASE j < i
    BY <1>1, <1>2, <1>3, <2>1, SMT
  <2>2. CASE ~(j < i)
    <3>1. w[j] = b[j - (i - 1)]
      BY <1>1, <1>2, <1>3, <2>2, SMT
    <3>2. j - (i - 1) \in 1 .. n - i /\ j - (i - 1) + i = j + 1
      BY <1>1, <2>2, SMT
    <3>3. QED
      BY <1>3, <2>2, <3>1, <3>2
  <2>3. QED
    BY <2>1, <2>2
<1> HIDE DEF w
<1>6. Distinct(w)
  <2> SUFFICES ASSUME NEW j \in 1 .. n - 1, NEW k \in 1 .. n - 1, w[j] = w[k]
               PROVE  j = k
    BY <1>4 DEF Distinct
  <2>1. \A x, y \in 1 .. n : s[x] = s[y] => x = y
    BY <1>1 DEF Distinct
  <2>2. QED
    BY <1>1, <1>5, <2>1, SMT
<1>7. Elems(w) = Elems(s) \ {s[i]}
  <2>1. ASSUME NEW j \in 1 .. n - 1 PROVE w[j] \in Elems(s) \ {s[i]}
    <3>1. j \in 1 .. n /\ j + 1 \in 1 .. n
      BY <1>1, SMT
    <3>2. j < i => s[j] # s[i]
      BY <1>1, <3>1, SMT DEF Distinct
    <3>3. ~(j < i) => s[j + 1] # s[i]
      BY <1>1, <3>1, SMT DEF Distinct
    <3>4. QED
      BY <1>1, <1>5, <3>1, <3>2, <3>3 DEF Elems
  <2>2. ASSUME NEW k \in 1 .. n, s[k] # s[i] PROVE s[k] \in Elems(w)
    <3>1. CASE k < i
      <4>1. k \in 1 .. n - 1 /\ w[k] = s[k]
        BY <1>1, <1>5, <3>1, SMT
      <4>2. QED
        BY <1>4, <4>1 DEF Elems
    <3>2. CASE k > i
      <4>1. k - 1 \in 1 .. n - 1 /\ w[k - 1] = s[k]
        BY <1>1, <1>5, <3>2, SMT
      <4>2. QED
        BY <1>4, <4>1 DEF Elems
    <3>3. QED
      BY <1>1, <2>2, <3>1, <3>2, SMT
  <2>3. QED
    BY <1>1, <1>4, <2>1, <2>2 DEF Elems
<1>8. QED
  BY <1>4, <1>6, <1>7 DEF Without, w, a, b, n

\* list_push_back puts one in.
LEMMA AppendOne ==
  ASSUME NEW s \in Seq(Proc), Distinct(s), NEW c \in Proc, c \notin Elems(s)
  PROVE  /\ Append(s, c) \in Seq(Proc) /\ Distinct(Append(s, c))
         /\ Elems(Append(s, c)) = Elems(s) \cup {c}
<1> DEFINE n == Len(s)
           w == Append(s, c)
<1>1. n \in Nat /\ DOMAIN s = 1 .. n
  BY SMT
<1>2. /\ w \in Seq(Proc) /\ DOMAIN w = 1 .. n + 1
      /\ \A j \in 1 .. n : w[j] = s[j]
      /\ w[n + 1] = c
  BY SMT
<1> HIDE DEF n, w
<1>3. \A j \in 1 .. n : s[j] # c
  BY <1>1 DEF Elems
<1>4. \A j \in 1 .. n + 1 : j \in 1 .. n \/ j = n + 1
  BY <1>1, SMT
<1>5. Distinct(w)
  BY <1>1, <1>2, <1>3, <1>4 DEF Distinct
<1>6. Elems(w) = Elems(s) \cup {c}
  <2>1. \A j \in 1 .. n : j \in 1 .. n + 1
    BY <1>1, SMT
  <2>2. n + 1 \in 1 .. n + 1
    BY <1>1, SMT
  <2>3. QED
    BY <1>1, <1>2, <1>4, <2>1, <2>2 DEF Elems
<1>7. QED
  BY <1>2, <1>5, <1>6 DEF w

\* A step that moves no process across the points that count.
LEMMA QuietAccounts ==
  ASSUME Accounts, parent' = parent, children' = children, wait_sema' = wait_sema,
         \A c \in Proc :
           /\ pc'[c] \in Announced <=> pc[c] \in Announced
           /\ pc'[c] = "wait_read" <=> pc[c] = "wait_read"
           /\ pc[c] = "dead" => pc'[c] = "dead"
  PROVE  Accounts'
<1>1. ASSUME NEW p \in Proc
      PROVE  Told(p)' = Told(p) /\ Paid(p)' = Paid(p) /\ Taken(p)' = Taken(p)
  <2>1. ChildrenOf(p)' = ChildrenOf(p)
    BY DEF ChildrenOf
  <2>2. Told(p)' = Told(p)
    BY <2>1 DEF Told, ChildrenOf
  <2>3. Paid(p)' = Paid(p)
    BY <2>1 DEF Paid
  <2>4. Taken(p)' = Taken(p)
    BY DEF Taken
  <2>5. QED
    BY <2>2, <2>3, <2>4
<1>2. ASSUME NEW p \in Proc, pc'[p] # "dead" PROVE Balanced(p)'
  <2>1. Balanced(p)
    BY <1>2 DEF Accounts
  <2>2. QED
    BY <1>1, <2>1 DEF Balanced
<1>3. QED
  BY <1>2 DEF Accounts

\* Init establishes the accounts.
LEMMA InitAInv == Init => AInv
<1> SUFFICES ASSUME Init PROVE AInv
  OBVIOUS
<1> USE ProcessAssumption DEF Init, Proc, Main, NULL
<1>1. TypeOK
  BY SMT DEF TypeOK, Label, NoResult, Status
<1>2. Listed
  BY SMT DEF Listed, Distinct, Elems
<1>3. ASSUME NEW p \in Proc PROVE Balanced(p)
  <2>1. Paid(p) = {} /\ Told(p) = {} /\ Taken(p) = 0
    BY SMT DEF Paid, Told, Taken, ChildrenOf
  <2>2. QED
    BY <2>1, FS_EmptySet, SMT DEF Balanced
<1>4. QED
  BY <1>1, <1>2, <1>3 DEF AInv, Accounts

\* Counting processes.
LEMMA Counts ==
  ASSUME NEW S \in SUBSET Proc
  PROVE  /\ Cardinality(S) \in Nat
         /\ \A x \in Proc : x \notin S => Cardinality(S \cup {x}) = Cardinality(S) + 1
         /\ \A T \in SUBSET S : /\ Cardinality(T) <= Cardinality(S)
                                /\ Cardinality(T) = Cardinality(S) => T = S
<1>1. IsFiniteSet(Proc)
  BY ProcessAssumption, FS_Interval, SMT DEF Proc
<1>2. IsFiniteSet(S)
  BY <1>1, FS_Subset
<1>3. Cardinality(S) \in Nat
  BY <1>2, FS_CardinalityType
<1>4. ASSUME NEW T \in SUBSET S
      PROVE  /\ Cardinality(T) <= Cardinality(S)
             /\ Cardinality(T) = Cardinality(S) => T = S
  BY <1>2, FS_Subset
<1>5. ASSUME NEW x \in Proc, x \notin S
      PROVE  Cardinality(S \cup {x}) = Cardinality(S) + 1
  BY <1>2, <1>5, FS_AddElement
<1>6. QED
  BY <1>3, <1>4, <1>5

\* Every step keeps the types.
LEMMA StepTypes == TypeOK /\ [Next]_vars => TypeOK'
<1> SUFFICES ASSUME TypeOK, [Next]_vars PROVE TypeOK'
  OBVIOUS
<1>1. CASE UNCHANGED vars
  BY <1>1 DEF vars, TypeOK
<1>2. ASSUME NEW p \in Proc, NEW c \in Proc, NEW next \in Label, ThreadCreate(p, c, next)
      PROVE  TypeOK'
  <2>1. children' \in [Proc -> Seq(Proc)]
    BY <1>2, SMT DEF ThreadCreate, TypeOK
  <2>2. pc' \in [Proc -> Label] /\ exit_status' \in [Proc -> Status]
    BY <1>2 DEF ThreadCreate, TypeOK, Label, Status
  <2>3. QED
    BY <1>2, <2>1, <2>2 DEF ThreadCreate, TypeOK
<1>3. CASE RunTask
  BY <1>2, <1>3, ProcessAssumption, SMT DEF RunTask, Label, Main, Proc
<1>4. ASSUME NEW p \in Proc, WaitReturn(p) PROVE TypeOK'
  <2>1. PICK i \in DOMAIN children[p] : children' = [children EXCEPT ![p] = Without(@, i)]
    BY <1>4 DEF WaitReturn, RemoveChild
  <2>2. ASSUME NEW s \in Seq(Proc), NEW j \in DOMAIN s PROVE Without(s, j) \in Seq(Proc)
    <3>1. SubSeq(s, 1, j - 1) \in Seq(Proc) /\ SubSeq(s, j + 1, Len(s)) \in Seq(Proc)
      BY SMT
    <3>2. QED
      BY <3>1, SMT DEF Without
  <2>3. children[p] \in Seq(Proc)
    BY DEF TypeOK
  <2>4. Without(children[p], i) \in Seq(Proc)
    BY <2>2, <2>3
  <2>5. children' \in [Proc -> Seq(Proc)]
    BY <2>1, <2>4 DEF TypeOK
  <2>6. pc' \in [Proc -> Label] /\ kernel' \in {"up", "off", "wild"}
    BY <1>4 DEF WaitReturn, TypeOK, Goto, Label
  <2>7. exit_status[child[p]] \in Status
    <3>1. child[p] \in Proc
      BY <1>4, <2>1, SMT DEF WaitReturn, RemoveChild, TypeOK
    <3>2. QED
      BY <3>1 DEF TypeOK
  <2>8. QED
    BY <1>4, <2>5, <2>6, <2>7 DEF WaitReturn, TypeOK
<1>5. ASSUME NEW p \in Proc, UserStep(p) PROVE TypeOK'
  <2> USE DEF TypeOK, Goto, Label, Status
  <2>1. CASE CallExec(p) \/ Halt(p)
    BY <2>1 DEF CallExec, Halt
  <2>2. CASE ExecRefused(p)
    BY <2>2 DEF ExecRefused, NoResult
  <2>3. CASE Exit(p)
    BY <2>3, SMT DEF Exit, StoreStatus
  <2>4. ASSUME NEW c \in Proc, CallWait(p, c) PROVE TypeOK'
    <3>1. CASE c \in Elems(children[p])
      <4>1. /\ child' = [child EXCEPT ![p] = c] /\ pc' = [pc EXCEPT ![p] = "wait"]
            /\ UNCHANGED <<kernel, parent, children, exit_status, load_sema, wait_sema,
                           loaded, executable, result>>
        BY <2>4, <3>1 DEF CallWait
      <4>2. QED
        BY <4>1
    <3>2. CASE c \notin Elems(children[p])
      <4>1. /\ result' = [result EXCEPT ![p] = NoResult]
            /\ UNCHANGED <<kernel, parent, children, exit_status, load_sema, wait_sema,
                           loaded, executable, pc, child>>
        BY <2>4, <3>2 DEF CallWait
      <4>2. QED
        BY <4>1 DEF NoResult
    <3>3. QED
      BY <3>1, <3>2
  <2>5. QED
    BY <1>5, <2>1, <2>2, <2>3, <2>4 DEF UserStep
<1>6. ASSUME NEW p \in Proc, KernelStep(p) PROVE TypeOK'
  <2>1. CASE Exec(p)
    BY <1>2, <2>1 DEF Exec, Label
  <2>2. CASE WaitReturn(p)
    BY <1>4, <2>2
  <2>3. CASE ExitDie(p)
    BY <2>3, SMT DEF ExitDie, TypeOK, Goto, Label, NoResult
  <2>4. CASE ExecReturn(p)
    BY <2>4 DEF ExecReturn, TypeOK, Goto, Label
  <2>5. CASE LoadUp(p)
    BY <2>5, SMT DEF LoadUp, UpMember, TypeOK, Goto, Label
  <2>10. CASE ExitUp(p)
    BY <2>10, SMT DEF ExitUp, UpMember, TypeOK, Goto, Label
  <2>6. CASE WaitDown(p)
    BY <2>6, SMT DEF WaitDown, ChildGone, TypeOK, Goto, Label
  <2>11. CASE ExecLoadDown(p)
    BY <2>11, SMT DEF ExecLoadDown, TypeOK, Goto, Label
  <2>7. CASE ExecNoMemory(p) \/ LoadKilled(p) \/ LoadFail(p) \/ StartProcess(p)
    BY <2>7 DEF ExecNoMemory, LoadKilled, LoadFail, StartProcess, TypeOK, Goto,
                Label, Status
  <2>8. CASE LoadOpen(p) \/ LoadFile(p) \/ ExitClose(p)
    BY <2>8 DEF LoadOpen, LoadFile, ExitClose, TypeOK, Goto, Label
  <2>9. QED
    BY <1>6, <2>1, <2>2, <2>3, <2>4, <2>5, <2>6, <2>7, <2>8, <2>10, <2>11 DEF KernelStep
<1>7. QED
  BY <1>1, <1>3, <1>5, <1>6 DEF Next

\* Creating a process adds a child that is on the list and has told nothing.
LEMMA CreateAInv ==
  ASSUME IInv, AInv, NEW p \in Proc, NEW c \in Proc, NEW next \in {"wait", "exec_load"},
         p # c, pc[p] \in {"boot", "exec"}, ThreadCreate(p, c, next)
  PROVE  Listed' /\ Accounts'
<1>1. /\ pc'[p] = next /\ pc'[c] = "load" /\ pc[c] = "none"
      /\ \A q \in Proc : q # p /\ q # c => pc'[q] = pc[q]
      /\ \A q \in Proc : parent'[q] = IF q = c THEN p ELSE parent[q]
      /\ \A q \in Proc : child'[q] = IF q = p THEN c ELSE child[q]
      /\ children'[p] = Append(children[p], c)
      /\ \A q \in Proc : q # p => children'[q] = children[q]
      /\ wait_sema' = wait_sema
  BY DEF ThreadCreate, AInv, TypeOK
<1>2. NULL \notin Proc
  BY ProcessAssumption, SMT DEF NULL, Proc
<1>3. /\ parent[c] = NULL /\ children[p] \in Seq(Proc) /\ Distinct(children[p])
      /\ Elems(children[p]) \subseteq ChildrenOf(p)
  BY <1>1 DEF AInv, Listed, TypeOK
<1>4. c \notin ChildrenOf(p) /\ c \notin Elems(children[p])
  BY <1>2, <1>3 DEF ChildrenOf
<1>5. /\ Distinct(children'[p])
      /\ Elems(children'[p]) = Elems(children[p]) \cup {c}
  BY <1>1, <1>3, <1>4, AppendOne
<1>6. /\ ChildrenOf(p)' = ChildrenOf(p) \cup {c}
      /\ \A q \in Proc : q # p => ChildrenOf(q)' = ChildrenOf(q)
  BY <1>1, <1>2, <1>3, SMT DEF ChildrenOf
<1>7. Listed'
  <2>1. ASSUME NEW q \in Proc, q # p
        PROVE  /\ pc'[q] = "none" => parent'[q] = NULL
               /\ Distinct(children'[q]) /\ Elems(children'[q]) \subseteq ChildrenOf(q)'
               /\ pc'[q] \in {"wait", "wait_read"} => child'[q] \in Elems(children'[q])
    BY <1>1, <1>6, <2>1 DEF AInv, Listed
  <2>2. /\ pc'[p] # "none"
        /\ Distinct(children'[p]) /\ Elems(children'[p]) \subseteq ChildrenOf(p)'
        /\ child'[p] \in Elems(children'[p])
    BY <1>1, <1>3, <1>5, <1>6
  <2>3. QED
    BY <2>1, <2>2 DEF Listed
<1>8. ASSUME NEW q \in Proc
      PROVE  Told(q)' = Told(q) /\ Paid(q)' = Paid(q) /\ Taken(q)' = Taken(q)
  <2>1. \A r \in Proc : r # c => (pc'[r] \in Announced <=> pc[r] \in Announced)
    BY <1>1 DEF Announced
  <2>2. pc'[c] \notin Announced /\ pc[c] \notin Announced
    BY <1>1 DEF Announced
  <2>3. Told(q)' = Told(q)
    <3>1. CASE q = p
      BY <1>6, <2>1, <2>2, <3>1 DEF Told, ChildrenOf
    <3>2. CASE q # p
      BY <1>6, <2>1, <2>2, <3>2 DEF Told, ChildrenOf
    <3>3. QED
      BY <3>1, <3>2
  <2>4. Paid(q)' = Paid(q)
    <3>1. CASE q = p
      BY <1>4, <1>5, <1>6, <3>1 DEF Paid
    <3>2. CASE q # p
      BY <1>1, <1>6, <3>2 DEF Paid
    <3>3. QED
      BY <3>1, <3>2
  <2>5. Taken(q)' = Taken(q)
    BY <1>1 DEF Taken
  <2>6. QED
    BY <2>3, <2>4, <2>5
<1>9. ASSUME NEW q \in Proc, pc'[q] # "dead" PROVE Balanced(q)'
  <2>1. Balanced(q)
    BY <1>1, <1>9 DEF AInv, Accounts
  <2>2. QED
    BY <1>1, <1>8, <2>1 DEF Balanced
<1>10. QED
  BY <1>7, <1>9 DEF Accounts

\* process_wait takes its child off the list, and the unit is paid for.
LEMMA WaitReturnAInv ==
  ASSUME IInv, AInv, NEW p \in Proc, WaitReturn(p)
  PROVE  Listed' /\ Accounts'
<1>1. PICK i \in DOMAIN children[p] :
        /\ children[p][i] = child[p]
        /\ children' = [children EXCEPT ![p] = Without(@, i)]
  BY DEF WaitReturn, RemoveChild
<1>2. PICK c : c = child[p]
  OBVIOUS
<1>3. /\ children[p] \in Seq(Proc) /\ Distinct(children[p])
      /\ Elems(children[p]) \subseteq ChildrenOf(p)
  BY DEF AInv, Listed, TypeOK
<1>4. /\ Distinct(children'[p]) /\ Elems(children'[p]) = Elems(children[p]) \ {c}
  BY <1>1, <1>2, <1>3, WithoutOne, ZenonT(30) DEF AInv, TypeOK
<1>5. c \in Elems(children[p])
  BY <1>1, <1>2 DEF Elems
<1>6. /\ \A q \in Proc : q # p => children'[q] = children[q] /\ pc'[q] = pc[q]
      /\ pc[p] = "wait_read" /\ pc'[p] \in {"off", "user"}
      /\ parent' = parent /\ wait_sema' = wait_sema /\ child' = child
  BY <1>1 DEF WaitReturn, At, Goto, AInv, TypeOK
<1>7. \A q \in Proc : ChildrenOf(q)' = ChildrenOf(q)
  BY <1>6 DEF ChildrenOf
<1>8. Listed'
  <2>1. ASSUME NEW q \in Proc, q # p
        PROVE  /\ pc'[q] = "none" => parent'[q] = NULL
               /\ Distinct(children'[q]) /\ Elems(children'[q]) \subseteq ChildrenOf(q)'
               /\ pc'[q] \in {"wait", "wait_read"} => child'[q] \in Elems(children'[q])
    BY <1>6, <1>7, <2>1 DEF AInv, Listed
  <2>2. /\ pc'[p] \notin {"none", "wait", "wait_read"}
        /\ Distinct(children'[p]) /\ Elems(children'[p]) \subseteq ChildrenOf(p)'
    BY <1>3, <1>4, <1>6, <1>7
  <2>3. QED
    BY <2>1, <2>2 DEF Listed
<1>9. \A q \in Proc : Told(q)' = Told(q)
  <2>1. \A r \in Proc : pc'[r] \in Announced <=> pc[r] \in Announced
    BY <1>6 DEF Announced
  <2>2. QED
    BY <1>7, <2>1 DEF Told, ChildrenOf
<1>10. ASSUME NEW q \in Proc, q # p, pc'[q] # "dead" PROVE Balanced(q)'
  <2>1. Balanced(q)
    BY <1>6, <1>10 DEF AInv, Accounts
  <2>2. Paid(q)' = Paid(q) /\ Taken(q)' = Taken(q)
    BY <1>6, <1>7, <1>10 DEF Paid, Taken
  <2>3. QED
    BY <1>6, <1>9, <2>1, <2>2 DEF Balanced
<1>11. Balanced(p)'
  <2> DEFINE A == Paid(p)
             B == Paid(p)'
             T == Told(p)
  <2>1. wait_sema[p] + Cardinality(A) + 1 = Cardinality(T)
    BY <1>6 DEF AInv, Accounts, Balanced, Taken
  <2>2. B = A \cup {c} /\ c \notin A /\ A \in SUBSET Proc /\ c \in Proc
    BY <1>3, <1>4, <1>5, <1>7 DEF Paid, ChildrenOf
  <2>3. Taken(p)' = 0
    BY <1>6 DEF Taken
  <2>4. T \in SUBSET Proc /\ Told(p)' = T
    BY <1>9 DEF Told, ChildrenOf
  <2>5. wait_sema[p] \in Nat /\ wait_sema' = wait_sema
    BY <1>6 DEF AInv, TypeOK
  <2> HIDE DEF A, B, T
  <2>6. /\ Cardinality(A) \in Nat /\ Cardinality(T) \in Nat
        /\ Cardinality(B) = Cardinality(A) + 1
    BY <2>2, <2>4, Counts
  <2>7. wait_sema'[p] + Cardinality(B) + 0 = Cardinality(T)
    BY <2>1, <2>5, <2>6, SMT
  <2>8. QED
    BY <2>3, <2>4, <2>7 DEF Balanced, B
<1>12. QED
  BY <1>8, <1>10, <1>11 DEF Accounts

\* The down of process_wait, and the up of thread_exit.
LEMMA UnitAInv ==
  ASSUME IInv, AInv, NEW p \in Proc, WaitDown(p) \/ ExitUp(p)
  PROVE  Listed' /\ Accounts'
<1>1. parent' = parent /\ children' = children /\ child' = child
  BY DEF WaitDown, ExitUp
<1>2. \A q \in Proc : q # p => pc'[q] = pc[q]
  BY DEF WaitDown, ExitUp, Goto, AInv, TypeOK
<1>3. \/ pc[p] = "wait" /\ pc'[p] = "wait_read"
      \/ pc[p] = "exit_up" /\ pc'[p] = "exit_close"
  BY DEF WaitDown, ExitUp, Goto, At, AInv, TypeOK
<1>4. \A q \in Proc : ChildrenOf(q)' = ChildrenOf(q) /\ Paid(q)' = Paid(q)
  BY <1>1 DEF ChildrenOf, Paid
<1>5. Listed'
  <2>1. ASSUME NEW q \in Proc
        PROVE  /\ pc'[q] = "none" => parent'[q] = NULL
               /\ Distinct(children'[q]) /\ Elems(children'[q]) \subseteq ChildrenOf(q)'
               /\ pc'[q] \in {"wait", "wait_read"} => child'[q] \in Elems(children'[q])
    BY <1>1, <1>2, <1>3, <1>4 DEF AInv, Listed
  <2>2. QED
    BY <2>1 DEF Listed
<1>6. CASE WaitDown(p)
  <2>1. /\ pc[p] = "wait" /\ pc'[p] = "wait_read"
        /\ wait_sema'[p] = wait_sema[p] - 1 /\ wait_sema[p] \in Nat
        /\ \A q \in Proc : q # p => wait_sema'[q] = wait_sema[q]
    BY <1>6 DEF WaitDown, Goto, At, AInv, TypeOK
  <2>2. \A q \in Proc : Told(q)' = Told(q)
    <3>1. \A r \in Proc : pc'[r] \in Announced <=> pc[r] \in Announced
      BY <1>2, <2>1 DEF Announced
    <3>2. QED
      BY <1>4, <3>1 DEF Told, ChildrenOf
  <2>3. ASSUME NEW q \in Proc, q # p, pc'[q] # "dead" PROVE Balanced(q)'
    <3>1. Balanced(q)
      BY <1>2, <2>3 DEF AInv, Accounts
    <3>2. Taken(q)' = Taken(q)
      BY <1>2, <2>3 DEF Taken
    <3>3. QED
      BY <1>4, <2>1, <2>2, <2>3, <3>1, <3>2 DEF Balanced
  <2>4. Balanced(p)'
    <3> DEFINE A == Paid(p)
               T == Told(p)
    <3>1. wait_sema[p] + Cardinality(A) + 0 = Cardinality(T)
      BY <2>1 DEF AInv, Accounts, Balanced, Taken
    <3>2. A \in SUBSET Proc
      BY DEF Paid, ChildrenOf
    <3>3. Taken(p)' = 1
      BY <2>1 DEF Taken
    <3>4. Paid(p)' = A /\ Told(p)' = T
      BY <1>4, <2>2
    <3> HIDE DEF A, T
    <3>5. Cardinality(A) \in Nat
      BY <3>2, Counts
    <3>6. wait_sema'[p] + Cardinality(A) + 1 = Cardinality(T)
      BY <2>1, <3>1, <3>5, SMT
    <3>7. QED
      BY <3>3, <3>4, <3>6 DEF Balanced
  <2>5. QED
    BY <1>5, <2>3, <2>4 DEF Accounts
<1>7. CASE ExitUp(p)
  <2>1. pc[p] = "exit_up" /\ pc'[p] = "exit_close"
    BY <1>7 DEF ExitUp, Goto, At, AInv, TypeOK
  <2>2. PICK d : d = parent[p]
    OBVIOUS
  <2>3. d \in Proc
    BY <2>1, <2>2 DEF IInv, Handshake, MainWaits
  <2>4. \A q \in Proc : q # d => wait_sema'[q] = wait_sema[q] /\ Told(q)' = Told(q)
    <3>1. \A q \in Proc : q # d => wait_sema'[q] = wait_sema[q]
      BY <1>7, <2>2, <2>3 DEF ExitUp, UpMember, AInv, TypeOK
    <3>2. \A r \in Proc : r # p => (pc'[r] \in Announced <=> pc[r] \in Announced)
      BY <1>2
    <3>3. ASSUME NEW q \in Proc, q # d PROVE Told(q)' = Told(q)
      <4>1. p \notin ChildrenOf(q)
        BY <2>2, <3>3 DEF ChildrenOf
      <4>2. QED
        BY <1>4, <3>2, <4>1 DEF Told, ChildrenOf
    <3>4. QED
      BY <3>1, <3>3
  <2>5. \A q \in Proc : Taken(q)' = Taken(q)
    BY <1>2, <2>1 DEF Taken
  <2>6. ASSUME NEW q \in Proc, q # d, pc'[q] # "dead" PROVE Balanced(q)'
    <3>1. Balanced(q)
      BY <1>2, <2>1, <2>6 DEF AInv, Accounts
    <3>2. QED
      BY <1>4, <2>4, <2>5, <2>6, <3>1 DEF Balanced
  <2>7. ASSUME pc'[d] # "dead" PROVE Balanced(d)'
    <3> DEFINE A == Paid(d)
               T == Told(d)
               U == Told(d)'
    <3>1. pc[d] # "dead"
      BY <1>2, <2>1, <2>3, <2>7
    <3>2. wait_sema[d] + Cardinality(A) + Taken(d) = Cardinality(T)
      BY <2>3, <3>1 DEF AInv, Accounts, Balanced
    <3>3. wait_sema'[d] = wait_sema[d] + 1 /\ wait_sema[d] \in Nat
      BY <1>7, <2>2, <2>3, <3>1 DEF ExitUp, UpMember, AInv, TypeOK
    <3>4. U = T \cup {p} /\ p \notin T
      BY <1>2, <1>4, <2>1, <2>2, <2>3 DEF Told, ChildrenOf, Announced
    <3>5. A \in SUBSET Proc /\ T \in SUBSET Proc /\ Taken(d) \in Nat
      BY DEF Paid, Told, ChildrenOf, Taken
    <3>6. Paid(d)' = A /\ Taken(d)' = Taken(d)
      BY <1>4, <2>3, <2>5
    <3> HIDE DEF A, T, U
    <3>7. /\ Cardinality(A) \in Nat /\ Cardinality(T) \in Nat
          /\ Cardinality(U) = Cardinality(T) + 1
      BY <3>4, <3>5, Counts
    <3>8. wait_sema'[d] + Cardinality(A) + Taken(d) = Cardinality(U)
      BY <3>2, <3>3, <3>5, <3>7, SMT
    <3>9. QED
      BY <3>6, <3>8 DEF Balanced, U
  <2>8. QED
    BY <1>5, <2>3, <2>6, <2>7 DEF Accounts
<1>8. QED
  BY <1>6, <1>7

\* Every step keeps the accounts.
LEMMA StepAInv == IInv /\ AInv /\ [Next]_vars => AInv'
<1> SUFFICES ASSUME IInv, AInv, [Next]_vars PROVE Listed' /\ Accounts'
  BY StepTypes DEF AInv
<1>1. CASE UNCHANGED vars
  BY <1>1, SMTT(30) DEF vars, AInv, Listed, Accounts, Balanced, Paid, Told, Taken, ChildrenOf
<1>2. CASE RunTask
  <2>1. PICK c \in Proc : At(Main, "boot") /\ ThreadCreate(Main, c, "wait")
    BY <1>2 DEF RunTask
  <2>2. Main \in Proc /\ Main # c
    BY <2>1, ProcessAssumption, SMT DEF Main, Proc, At, ThreadCreate
  <2>3. QED
    BY <2>1, <2>2, CreateAInv DEF At
<1>3. ASSUME NEW p \in Proc, Exec(p) PROVE Listed' /\ Accounts'
  <2>1. PICK c \in Proc : At(p, "exec") /\ ThreadCreate(p, c, "exec_load")
    BY <1>3 DEF Exec
  <2>2. p # c
    BY <2>1 DEF At, ThreadCreate
  <2>3. QED
    BY <2>1, <2>2, CreateAInv DEF At
<1>4. ASSUME NEW p \in Proc, ExitDie(p) PROVE Listed' /\ Accounts'
  <2>1. /\ parent' = parent /\ pc[p] = "exit_die" /\ pc'[p] = "dead"
        /\ children'[p] = <<>>
        /\ \A q \in Proc : q # p => /\ pc'[q] = pc[q] /\ child'[q] = child[q]
                                    /\ children'[q] = children[q]
                                    /\ wait_sema'[q] = wait_sema[q]
    BY <1>4 DEF ExitDie, At, Goto, AInv, TypeOK
  <2>2. \A q \in Proc : ChildrenOf(q)' = ChildrenOf(q)
    BY <2>1 DEF ChildrenOf
  <2>3. Listed'
    <3>1. ASSUME NEW q \in Proc, q # p
          PROVE  /\ pc'[q] = "none" => parent'[q] = NULL
                 /\ Distinct(children'[q]) /\ Elems(children'[q]) \subseteq ChildrenOf(q)'
                 /\ pc'[q] \in {"wait", "wait_read"} => child'[q] \in Elems(children'[q])
      BY <2>1, <2>2, <3>1 DEF AInv, Listed
    <3>2. Distinct(children'[p]) /\ Elems(children'[p]) = {}
      BY <2>1, SMT DEF Distinct, Elems
    <3>3. QED
      BY <2>1, <3>1, <3>2 DEF Listed
  <2>4. ASSUME NEW q \in Proc, pc'[q] # "dead" PROVE Balanced(q)'
    <3>1. q # p /\ Balanced(q)
      BY <2>1, <2>4 DEF AInv, Accounts
    <3>2. \A r \in Proc : pc'[r] \in Announced <=> pc[r] \in Announced
      BY <2>1 DEF Announced
    <3>3. Told(q)' = Told(q)
      BY <2>2, <3>2 DEF Told, ChildrenOf
    <3>4. Paid(q)' = Paid(q) /\ Taken(q)' = Taken(q)
      BY <2>1, <2>2, <3>1 DEF Paid, Taken
    <3>5. QED
      BY <2>1, <3>1, <3>3, <3>4 DEF Balanced
  <2>5. QED
    BY <2>3, <2>4 DEF Accounts
<1>5. ASSUME NEW p \in Proc, NEW c \in Proc, CallWait(p, c) PROVE Listed' /\ Accounts'
  <2>1. /\ parent' = parent /\ children' = children /\ wait_sema' = wait_sema
        /\ pc[p] = "user"
    BY <1>5 DEF CallWait, At
  <2>2. CASE c \in Elems(children[p])
    <3>1. /\ child' = [child EXCEPT ![p] = c] /\ pc' = [pc EXCEPT ![p] = "wait"]
      BY <1>5, <2>2 DEF CallWait, Goto
    <3>2. /\ pc'[p] = "wait" /\ child'[p] = c
          /\ \A q \in Proc : q # p => pc'[q] = pc[q] /\ child'[q] = child[q]
      BY <3>1 DEF AInv, TypeOK
    <3>3. Listed'
      BY <2>1, <2>2, <3>2 DEF AInv, Listed, ChildrenOf
    <3>4. QED
      BY <2>1, <3>2, <3>3, QuietAccounts DEF AInv, Announced
  <2>3. CASE c \notin Elems(children[p])
    <3>1. pc' = pc /\ child' = child
      BY <1>5, <2>3 DEF CallWait
    <3>2. Listed'
      BY <2>1, <3>1 DEF AInv, Listed, ChildrenOf
    <3>3. QED
      BY <2>1, <3>1, <3>2, QuietAccounts DEF AInv
  <2>4. QED
    BY <2>2, <2>3
<1>6. ASSUME NEW p \in Proc,
             \/ CallExec(p) \/ ExecRefused(p) \/ ExecNoMemory(p) \/ ExecLoadDown(p)
             \/ ExecReturn(p) \/ LoadOpen(p) \/ LoadFile(p) \/ LoadKilled(p)
             \/ LoadFail(p) \/ LoadUp(p) \/ StartProcess(p) \/ Exit(p) \/ ExitClose(p)
             \/ Halt(p)
      PROVE  Listed' /\ Accounts'
  <2>1. /\ parent' = parent /\ children' = children /\ wait_sema' = wait_sema
        /\ child' = child
    BY <1>6 DEF CallExec, ExecRefused, ExecNoMemory, ExecLoadDown, ExecReturn, LoadOpen,
                LoadFile, LoadKilled, LoadFail, LoadUp, StartProcess, Exit, ExitClose, Halt
  <2>2. \/ pc' = pc
        \/ /\ pc[p] \in {"user", "exec", "exec_load", "exec_check", "load", "load_file",
                           "load_fail", "load_up", "loaded"}
           /\ \E next \in {"user", "exec", "exec_check", "load_file", "load_fail", "load_up",
                            "loaded", "exit_up"} : pc' = [pc EXCEPT ![p] = next]
        \/ pc[p] = "exit_close" /\ pc' = [pc EXCEPT ![p] = "exit_die"]
    BY <1>6 DEF CallExec, ExecRefused, ExecNoMemory, ExecLoadDown, ExecReturn, LoadOpen,
                LoadFile, LoadKilled, LoadFail, LoadUp, StartProcess, Exit, ExitClose, Halt,
                At, Goto
  <2>3. pc \in [Proc -> Label]
    BY DEF AInv, TypeOK
  <2>4. \A q \in Proc : /\ pc'[q] \in Announced <=> pc[q] \in Announced
                        /\ pc'[q] = "wait_read" <=> pc[q] = "wait_read"
                        /\ pc[q] = "dead" => pc'[q] = "dead"
                        /\ pc'[q] = "wait" => pc[q] = "wait"
                        /\ pc'[q] = "none" => pc[q] = "none"
    BY <2>2, <2>3 DEF Announced
  <2>5. Listed'
    BY <2>1, <2>4 DEF AInv, Listed, ChildrenOf
  <2>6. QED
    BY <2>1, <2>4, <2>5, QuietAccounts DEF AInv
<1>7. QED
  BY <1>1, <1>2, <1>3, <1>4, <1>5, <1>6, WaitReturnAInv, UnitAInv
     DEF Next, KernelStep, UserStep

\* Only a process itself stores its status, before it begins to leave.
LEMMA StepStored ==
  ASSUME UNUSED_CHILD_EXIT_STATUS \notin Code, IInv, Stored, [Next]_vars
  PROVE  Stored'
<1> USE DEF IInv, Types, Stored, Leaving, Announced, At, Goto
<1>1. CASE UNCHANGED vars
  BY <1>1 DEF vars
<1>2. ASSUME NEW p \in Proc, NEW c \in Proc, NEW next \in {"wait", "exec_load"},
             ThreadCreate(p, c, next)
      PROVE  Stored'
  BY <1>2 DEF ThreadCreate
<1>3. CASE RunTask
  <2>1. Main \in Proc
    BY ProcessAssumption, SMT DEF Main, Proc
  <2>2. QED
    BY <1>2, <1>3, <2>1 DEF RunTask
<1>4. ASSUME NEW p \in Proc, UserStep(p) PROVE Stored'
  <2>1. CASE Exit(p)
    BY <2>1, SMT DEF Exit, StoreStatus, SYSCALL_ERROR, UNUSED_CHILD_EXIT_STATUS
  <2>2. CASE CallExec(p) \/ ExecRefused(p) \/ Halt(p) \/ \E c \in Proc : CallWait(p, c)
    BY <2>2 DEF CallExec, ExecRefused, Halt, CallWait
  <2>3. QED
    BY <1>4, <2>1, <2>2 DEF UserStep
<1>5. ASSUME NEW p \in Proc, KernelStep(p) PROVE Stored'
  <2>1. CASE Exec(p)
    BY <1>2, <2>1 DEF Exec
  <2>2. CASE ExecNoMemory(p) \/ LoadKilled(p) \/ LoadFail(p) \/ StartProcess(p)
    BY <2>2, SMT DEF ExecNoMemory, LoadKilled, LoadFail, StartProcess, SYSCALL_ERROR,
                UNUSED_CHILD_EXIT_STATUS
  <2>3. CASE \/ ExecLoadDown(p) \/ ExecReturn(p) \/ LoadOpen(p) \/ LoadFile(p)
             \/ LoadUp(p) \/ WaitDown(p) \/ WaitReturn(p)
    BY <2>3 DEF ExecLoadDown, ExecReturn, LoadOpen, LoadFile, LoadUp, WaitDown, WaitReturn
  <2>4. CASE ExitUp(p) \/ ExitClose(p) \/ ExitDie(p)
    BY <2>4 DEF ExitUp, ExitClose, ExitDie
  <2>5. QED
    BY <1>5, <2>1, <2>2, <2>3, <2>4 DEF KernelStep
<1>6. QED
  BY <1>1, <1>3, <1>4, <1>5 DEF Next

\* process_wait and thread_exit, for any number of processes that start, wait
\* and exit in any order, some of them after their parent is gone: the units of
\* wait_sema and the list of children balance, so the last child that is
\* waited for has really left, and its status is its own.  A program that
\* passes the mark for "no status yet" to exit is out of the question here.
THEOREM WaitsBalance ==
  ASSUME UNUSED_CHILD_EXIT_STATUS \notin Code
  PROVE  Spec => []WaitAccounting
<1>1. Init => Stored
  BY DEF Init, Stored, Leaving, Announced
<1>2. IInv /\ Stored /\ [Next]_vars => Stored'
  BY StepStored
<1>3. IInv /\ AInv /\ Stored => WaitAccounting
  <2> SUFFICES ASSUME IInv, AInv, Stored PROVE WaitAccounting
    OBVIOUS
  <2>1. ASSUME NEW p \in Proc, pc[p] # "dead"
        PROVE  wait_sema[p] + Cardinality(ChildrenOf(p) \ Elems(children[p]))
                 + (IF pc[p] = "wait_read" THEN 1 ELSE 0)
               = Cardinality({c \in ChildrenOf(p) : pc[c] \in Announced})
    BY <2>1 DEF AInv, Accounts, Balanced, Paid, Told, Taken
  <2>2. ASSUME NEW p \in Proc, pc[p] = "wait_read", Elems(children[p]) = {child[p]}
        PROVE  /\ pc[child[p]] \in Announced
               /\ exit_status[child[p]] # UNUSED_CHILD_EXIT_STATUS
    <3> DEFINE C == ChildrenOf(p)
               A == Paid(p)
               T == Told(p)
    <3>1. PICK c : c = child[p]
      OBVIOUS
    <3>2. wait_sema[p] + Cardinality(A) + 1 = Cardinality(T) /\ wait_sema[p] \in Nat
      BY <2>2 DEF AInv, Accounts, Balanced, Taken, TypeOK
    <3>3. c \in C /\ C = A \cup {c} /\ c \notin A /\ T \in SUBSET C /\ C \in SUBSET Proc
      BY <2>2, <3>1 DEF AInv, Listed, Paid, Told, ChildrenOf
    <3> HIDE DEF A, C, T
    <3>4. A \in SUBSET Proc /\ T \in SUBSET Proc /\ c \in Proc
      BY <3>3
    <3>5. /\ Cardinality(A) \in Nat /\ Cardinality(C) = Cardinality(A) + 1
          /\ Cardinality(T) \in Nat /\ Cardinality(C) \in Nat
      BY <3>3, <3>4, Counts
    <3>6. Cardinality(T) <= Cardinality(C)
      BY <3>3, Counts
    <3>7. Cardinality(T) = Cardinality(C)
      BY <3>2, <3>5, <3>6, SMT
    <3>8. T = C
      BY <3>3, <3>7, Counts
    <3>9. c \in Proc /\ pc[c] \in Announced
      BY <3>3, <3>8 DEF T, C, Told
    <3>10. QED
      BY <3>1, <3>9 DEF Stored, Leaving
  <2>3. QED
    BY <2>1, <2>2 DEF WaitAccounting, AInv
<1>4. QED
  BY InitIInv, StepIInv, InitAInv, StepAInv, <1>1, <1>2, <1>3, PTL DEF Spec
=============================================================================
