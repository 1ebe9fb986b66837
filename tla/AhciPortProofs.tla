--------------------------- MODULE AhciPortProofs ----------------------------
(***************************************************************************)
(* Theorems about AhciPort, for any sectors, buffers, length of the waits  *)
(* and number of calls.                                                    *)
(***************************************************************************)
EXTENDS AhciPort, TLAPS

(* Between the end of the idle wait and the return the table describes the *)
(* call; a busy disk has a command that ci announces.                      *)
SlotInv ==
  /\ pc = "cfis" => slot.buf = req.buf
  /\ pc \in {"wait", "poll"} => slot = req
  /\ tfd = "busy" => ci = 1

(* A set ci belongs to the call in progress, to a call that timed out, or  *)
(* to one that failed.                                                     *)
CiInv == ~abandoned /\ ci = 1 /\ tfd # "error" => pc = "poll"

(* The controller executes the command of the call: nobody has timed out,  *)
(* or the call has seen the disk ready before it issued its command.       *)
Own == pc = "poll" /\ (~abandoned \/ (kind = "sata" /\ timeout >= 0))
OwnInv == Own /\ tfd = "busy" => hba = req

(* Until somebody times out, the payload of a write stays in its buffer.   *)
PayloadInv ==
  ~abandoned /\ pc # "idle" /\ req.op = "write" => memory[req.buf] = Written(calls)

MovedInv ==
  Own /\ ci = 0 /\ (~abandoned \/ req.op = "read") => Moved(req)

IInv == TypeOK /\ SlotInv /\ CiInv /\ OwnInv /\ PayloadInv /\ MovedInv
-----------------------------------------------------------------------------
LEMMA InitIInv == ASSUME AhciAssumption, Init PROVE IInv
<1>1. disk \in [Lbas -> Contents] /\ memory \in [Buffers -> Contents]
  BY DEF Init, Contents
<1>2. TypeOK
  <2>1. req \in Commands /\ slot \in Commands /\ hba \in Commands
    BY DEF Init
  <2>2. timeout \in -BelowZero .. Spins /\ calls \in 0 .. MaxCalls
    BY DEF Init, AhciAssumption
  <2>3. kind = "satapi" => timeout >= (IF pc = "poll" THEN 0 ELSE -1)
    BY DEF Init
  <2> QED BY <1>1, <2>1, <2>2, <2>3 DEF Init, TypeOK
<1>3. SlotInv /\ CiInv /\ OwnInv /\ PayloadInv /\ MovedInv
  BY DEF Init, SlotInv, CiInv, Own, OwnInv, PayloadInv, MovedInv
<1> QED BY <1>2, <1>3 DEF IInv

(* Types: one step per action that assigns something new. *)
LEMMA TypeStep == ASSUME AhciAssumption, TypeOK, [Next]_vars PROVE TypeOK'
<1> USE DEF TypeOK, AhciAssumption
<1>1. ASSUME NEW c \in Commands, SataCall(c) \/ SatapiCall(c)
      PROVE  TypeOK'
  <2>1. Call(c)
    BY <1>1 DEF SataCall, SatapiCall
  <2>2. calls' \in 1 .. MaxCalls /\ Written(calls') \in Contents
    BY <2>1 DEF Call, Contents
  <2>3. memory' \in [Buffers -> Contents]
    BY <2>1, <2>2 DEF Call
  <2> QED BY <2>1, <2>2, <2>3 DEF Call
<1>2. CASE Describe
  BY <1>2 DEF Describe, Commands
<1>3. CASE Frame
  <2>1. slot' = [op |-> req.op, lba |-> req.lba, buf |-> slot.buf]
    BY <1>3 DEF Frame, Commands
  <2>2. slot' \in Commands
    BY <2>1 DEF Commands
  <2> QED BY <1>3, <2>2 DEF Frame
<1>4. CASE IdleSpin
  BY <1>4 DEF IdleSpin
<1>5. CASE Issue
  BY <1>5 DEF Issue, TimeoutAtIssue
<1>6. CASE PollSpin \/ PollError
  BY <1>6 DEF PollSpin, PollError, Turn, Return
<1>7. CASE PollEnd
  BY <1>7 DEF PollEnd, Return
<1>8. CASE Fetch
  BY <1>8 DEF Fetch, call
<1>9. CASE Complete
  <2>1. PICK buf \in {hba.buf, slot.buf} :
          IF hba.op = "read"
          THEN memory' = [memory EXCEPT ![buf] = disk[hba.lba]] /\ UNCHANGED disk
          ELSE disk' = [disk EXCEPT ![hba.lba] = memory[buf]] /\ UNCHANGED memory
    BY <1>9 DEF Complete
  <2>2. buf \in Buffers /\ hba.lba \in Lbas
    BY DEF Commands
  <2>3. disk' \in [Lbas -> Contents] /\ memory' \in [Buffers -> Contents]
    BY <2>1, <2>2
  <2> QED BY <1>9, <2>3 DEF Complete, call
<1>10. CASE Fail
  BY <1>10 DEF Fail, call
<1>11. CASE UNCHANGED vars
  BY <1>11 DEF vars, call
<1> QED BY <1>1, <1>2, <1>3, <1>4, <1>5, <1>6, <1>7, <1>8, <1>9, <1>10, <1>11
        DEF Next, Driver, Controller

(* While nobody has timed out, a busy disk works for the call in progress. *)
LEMMA BusyIsOwn ==
  ASSUME IInv, ~abandoned, tfd = "busy"
  PROVE  pc = "poll" /\ Own /\ hba = req /\ slot = req
  BY DEF IInv, SlotInv, CiInv, OwnInv, Own

LEMMA InvStep == ASSUME AhciAssumption, IInv, [Next]_vars PROVE IInv'
<1>1. TypeOK'
  BY TypeStep DEF IInv
<1> USE DEF TypeOK, AhciAssumption
<1>2. SUFFICES SlotInv' /\ CiInv' /\ OwnInv' /\ PayloadInv' /\ MovedInv'
  BY <1>1 DEF IInv
<1>3. ASSUME NEW c \in Commands, SataCall(c) \/ SatapiCall(c)
      PROVE  SlotInv' /\ CiInv' /\ OwnInv' /\ PayloadInv' /\ MovedInv'
  <2>1. Call(c)
    BY <1>3 DEF SataCall, SatapiCall
  <2>2. PayloadInv'
    BY <2>1 DEF Call, PayloadInv, IInv, Commands
  <2> QED BY <2>1, <2>2 DEF Call, IInv, SlotInv, CiInv, Own, OwnInv, MovedInv
<1>4. CASE Describe
  BY <1>4 DEF Describe, IInv, SlotInv, CiInv, Own, OwnInv, PayloadInv, MovedInv, Commands
<1>5. CASE Frame
  <2>1. slot' = req
    BY <1>5 DEF Frame, IInv, SlotInv, Commands
  <2> QED BY <1>5, <2>1 DEF Frame, IInv, SlotInv, CiInv, Own, OwnInv, PayloadInv, MovedInv
<1>6. CASE IdleSpin
  BY <1>6 DEF IdleSpin, IInv, SlotInv, CiInv, Own, OwnInv, PayloadInv, MovedInv
<1>7. CASE Issue
  <2>1. tfd = "busy" => abandoned
    BY <1>7, BusyIsOwn DEF Issue
  <2>2. OwnInv'
    BY <1>7, <2>1 DEF Issue, TimeoutAtIssue, OwnInv, Own, IInv
  <2> QED BY <1>7, <2>2 DEF Issue, IInv, SlotInv, CiInv, PayloadInv, MovedInv
<1>8. CASE PollSpin
  <2>1. Own' => Own
    BY <1>8 DEF PollSpin, Own, Turn, IInv
  <2> QED BY <1>8, <2>1 DEF PollSpin, IInv, SlotInv, CiInv, OwnInv, PayloadInv, MovedInv
<1>9. CASE PollError
  BY <1>9 DEF PollError, Return, IInv, SlotInv, CiInv, Own, OwnInv, PayloadInv, MovedInv
<1>10. CASE PollEnd
  BY <1>10 DEF PollEnd, Return, IInv, SlotInv, CiInv, Own, OwnInv, PayloadInv, MovedInv
<1>11. CASE Fetch
  <2>1. UNCHANGED <<pc, req, slot, kind, timeout, calls, abandoned, ci, disk, memory>>
    BY <1>11 DEF Fetch, call
  <2>2. OwnInv'
    BY <1>11, <2>1 DEF Fetch, OwnInv, Own, IInv, SlotInv
  <2> QED BY <1>11, <2>1, <2>2 DEF Fetch, IInv, SlotInv, CiInv, Own, PayloadInv, MovedInv, Moved
<1>12. CASE Complete
  <2>1. UNCHANGED <<pc, req, slot, kind, timeout, calls, abandoned, hba>> /\ tfd = "busy"
        /\ ci' = 0 /\ tfd' = "ready"
    BY <1>12 DEF Complete, call
  <2>2. PICK buf \in {hba.buf, slot.buf} :
          IF hba.op = "read"
          THEN memory' = [memory EXCEPT ![buf] = disk[hba.lba]] /\ UNCHANGED disk
          ELSE disk' = [disk EXCEPT ![hba.lba] = memory[buf]] /\ UNCHANGED memory
    BY <1>12 DEF Complete
  <2>3. PayloadInv'
    <3>1. ~abandoned /\ req.op = "write" => UNCHANGED memory
      BY <2>1, <2>2, BusyIsOwn
    <3> QED BY <2>1, <3>1 DEF PayloadInv, IInv
  <2>4. MovedInv'
    <3> SUFFICES ASSUME Own, ~abandoned \/ req.op = "read"
                 PROVE  Moved(req)'
      BY <2>1 DEF MovedInv, Own
    <3>1. hba = req /\ slot = req
      BY <2>1 DEF IInv, OwnInv, SlotInv, Own
    <3>2. req.lba \in Lbas /\ req.buf \in Buffers /\ req.op \in Ops /\ buf = req.buf
      BY <2>2, <3>1 DEF IInv, Commands
    <3>3. disk'[req.lba] = memory'[req.buf]
      BY <2>2, <3>1, <3>2 DEF IInv
    <3>4. req.op = "write" => memory'[req.buf] = Written(calls)
      <4>1. req.op = "write" => ~abandoned /\ UNCHANGED memory
        BY <2>2, <3>1
      <4> QED BY <4>1 DEF IInv, PayloadInv, Own
    <3> QED BY <2>1, <3>3, <3>4 DEF Moved
  <2> QED BY <2>1, <2>3, <2>4 DEF IInv, SlotInv, CiInv, OwnInv
<1>13. CASE Fail
  BY <1>13 DEF Fail, call, IInv, SlotInv, CiInv, Own, OwnInv, PayloadInv, MovedInv, Moved
<1>14. CASE UNCHANGED vars
  BY <1>14 DEF vars, call, IInv, SlotInv, CiInv, Own, OwnInv, PayloadInv, MovedInv, Moved
<1> QED BY <1>3, <1>4, <1>5, <1>6, <1>7, <1>8, <1>9, <1>10, <1>11, <1>12, <1>13, <1>14
        DEF Next, Driver, Controller

LEMMA AlwaysIInv == ASSUME AhciAssumption PROVE Spec => []IInv
  BY InitIInv, InvStep, PTL DEF Spec

(* The types of the port, its call and the controller hold throughout.     *)
THEOREM TypeCorrect == ASSUME AhciAssumption PROVE Spec => []TypeOK
<1>1. IInv => TypeOK
  BY DEF IInv
<1> QED BY <1>1, AlwaysIInv, PTL

(* Without a timeout the controller works for the call in progress only.   *)
THEOREM NothingLeftBehindHolds == ASSUME AhciAssumption PROVE Spec => []NothingLeftBehind
<1>1. IInv => NothingLeftBehind
  BY BusyIsOwn DEF NothingLeftBehind
<1> QED BY <1>1, AlwaysIInv, PTL

(* A call that returns 0 has moved its own data: every call until one has  *)
(* timed out, and every read from a hard disk.                             *)
THEOREM SuccessMeansMovedHolds == ASSUME AhciAssumption PROVE Spec => SuccessMeansMoved
<1>1. ASSUME IInv, [Next]_vars
      PROVE  [Succeeds /\ (~abandoned \/ (kind = "sata" /\ req.op = "read")) => Moved(req)]_vars
  <2> SUFFICES ASSUME Next, Succeeds, ~abandoned \/ (kind = "sata" /\ req.op = "read")
               PROVE  Moved(req)
    BY <1>1
  <2>1. PollEnd
    BY DEF Succeeds, Next, Driver, Controller, SataCall, SatapiCall, Call, Describe, Frame,
           IdleSpin, Issue, PollSpin, PollError, Return, Fetch, Complete, Fail, call
  <2>2. ci = 0 /\ timeout >= 0
    BY <1>1, <2>1 DEF PollEnd, Return, Succeeds, IInv, TypeOK, AhciAssumption
  <2> QED BY <1>1, <2>2 DEF IInv, MovedInv, Own, Succeeds
<1> QED BY <1>1, AlwaysIInv, PTL DEF Spec, SuccessMeansMoved
=============================================================================
