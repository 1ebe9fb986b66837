------------------------------ MODULE AhciPort -------------------------------
(***************************************************************************)
(* One started AHCI port, with its single command slot: the read and write *)
(* calls of the kernel (ahci_read_sectors, ahci_write_sectors and, for a   *)
(* CD, satapi_send_packet) against the controller, which fetches and       *)
(* executes the slot in its own time and by DMA.                           *)
(*                                                                         *)
(* A call polls and does not yield, so the port has one caller at a time.  *)
(* A sector's or a buffer's content is abstracted to who put it there.     *)
(***************************************************************************)
EXTENDS Integers

CONSTANTS
  Lbas,        \* the sectors
  Buffers,     \* the buffers callers get from malloc and give back
  Spins,       \* the turns a wait loop makes (1,000,000)
  BelowZero,   \* bound: how far the counter is followed below zero
  MaxCalls     \* bound: calls in a behaviour

ASSUME AhciAssumption ==
  /\ Spins \in Nat /\ MaxCalls \in Nat
  /\ BelowZero \in Nat \ {0}
  /\ Lbas # {} /\ Buffers # {}

VARIABLES
  kind,        \* what the signature of the port says: "sata" or "satapi"
  pc,          \* where the call is
  req,         \* its arguments
  timeout,     \* its counter
  calls,       \* calls so far
  result,      \* what the last call returned
  slot,        \* the command table: cfis (op, lba) and prdt_entry[0] (buf)
  ci, tfd,     \* the registers: bit 0 of ci; BSY or DRQ, ERR, or neither
  hba,         \* the command the controller executes while tfd is "busy"
  disk,        \* the sectors
  memory,      \* the buffers
  abandoned    \* history: a call has returned while ci was set, without an error

call == <<kind, pc, req, timeout, calls, result, slot, abandoned>>
vars == <<call, ci, tfd, hba, disk, memory>>

Kinds == {"sata", "satapi"}
Ops == {"read", "write"}
Commands == [op : Ops, lba : Lbas, buf : Buffers]

(* Who put a content there. *)
From(who, n) == <<who, n>>
Written(n) == From("call", n)
Contents == {From("disk", l) : l \in Lbas} \cup {From("memory", b) : b \in Buffers}
              \cup {Written(n) : n \in 1 .. MaxCalls}

(* The scan has reset the port, found the link and the signature, and      *)
(* started it (ahci_force_port_reset).                                     *)
Init ==
  /\ kind \in Kinds
  /\ pc = "idle" /\ timeout = 0 /\ calls = 0 /\ result = 0
  /\ slot \in {c \in Commands : c.op = "read"} /\ req = slot /\ hba = slot
  /\ ci = 0 /\ tfd = "ready"
  /\ disk = [l \in Lbas |-> From("disk", l)]
  /\ memory = [b \in Buffers |-> From("memory", b)]
  /\ abandoned = FALSE

-----------------------------------------------------------------------------
Call(c) ==
  /\ pc = "idle" /\ calls < MaxCalls
  /\ req' = c
  /\ calls' = calls + 1
  /\ memory' = IF c.op = "write" THEN [memory EXCEPT ![c.buf] = Written(calls')] ELSE memory
  /\ pc' = "prdt"
  /\ UNCHANGED <<kind, timeout, result, slot, abandoned, ci, tfd, hba, disk>>

(* A hard disk is read and written, a CD has no write_lba. *)
SataCall(c) == kind = "sata" /\ Call(c)
SatapiCall(c) == kind = "satapi" /\ c.op = "read" /\ Call(c)

\* Mutant: the descriptor of the last call stays.
DescribeNothing ==
  /\ pc = "prdt"
  /\ pc' = "cfis"
  /\ UNCHANGED <<kind, req, timeout, calls, result, slot, abandoned, ci, tfd, hba, disk, memory>>

(* The table is built in memory the controller reads when it likes: first  *)
(* header and descriptor, then the command FIS.                            *)
Describe ==
  /\ pc = "prdt"
  /\ slot' = [slot EXCEPT !.buf = req.buf]
  /\ pc' = "cfis"
  /\ UNCHANGED <<kind, req, timeout, calls, result, abandoned, ci, tfd, hba, disk, memory>>
Frame ==
  /\ pc = "cfis"
  /\ slot' = [slot EXCEPT !.op = req.op, !.lba = req.lba]
  /\ timeout' = Spins
  /\ pc' = "wait"
  /\ UNCHANGED <<kind, req, calls, result, abandoned, ci, tfd, hba, disk, memory>>

\* Mutant: SATA, too, starts the second wait with a fresh counter.
RefreshedTimeout(t) == Spins
\* Mutant: a packet, too, keeps the counter of the first wait.
KeptTimeout(t) == t
TimeoutAtIssue(t) == IF kind = "satapi" THEN Spins ELSE t

(* The idle wait. It ends when the disk is ready or the counter is used up *)
(* (-1), and the command is issued in either case.                         *)
IdleSpin ==
  /\ pc = "wait" /\ tfd = "busy" /\ timeout > 0
  /\ timeout' = timeout - 1
  /\ UNCHANGED <<kind, pc, req, calls, result, slot, abandoned, ci, tfd, hba, disk, memory>>
Issue ==
  /\ pc = "wait"
  /\ \/ tfd # "busy" /\ timeout' = TimeoutAtIssue(timeout)
     \/ tfd = "busy" /\ timeout = 0 /\ timeout' = TimeoutAtIssue(-1)
  /\ ci' = 1
  /\ pc' = "poll"
  /\ UNCHANGED <<kind, req, calls, result, slot, abandoned, tfd, hba, disk, memory>>

Return(r) == pc' = "idle" /\ result' = r

\* Mutant: the loop does not count.
TurnsUncounted(t) == t
(* One turn. Below zero the counter is true, too, and goes on to count     *)
(* down; the code has 2^31 turns until it overflows.                       *)
Turn(t) == IF t > -BelowZero THEN t - 1 ELSE t

(* The second wait, for ci. *)
PollSpin ==
  /\ pc = "poll" /\ ci = 1 /\ timeout # 0 /\ tfd # "error"
  /\ timeout' = Turn(timeout)
  /\ UNCHANGED <<kind, pc, req, calls, result, slot, abandoned, ci, tfd, hba, disk, memory>>
PollError ==
  /\ pc = "poll" /\ ci = 1 /\ timeout # 0 /\ tfd = "error"
  /\ timeout' = Turn(timeout)
  /\ Return(-1)
  /\ UNCHANGED <<kind, req, calls, slot, abandoned, ci, tfd, hba, disk, memory>>

(* ci is clear, or the counter is used up. The last turn of the counter    *)
(* returns an error even when the command has ended.                       *)
PollEnd ==
  /\ pc = "poll" /\ (ci = 0 \/ timeout = 0)
  /\ Return(IF timeout <= 0 THEN -1 ELSE 0)
  /\ timeout' = IF ci = 1 THEN -1 ELSE timeout
  /\ abandoned' = (abandoned \/ (ci = 1 /\ tfd # "error"))
  /\ UNCHANGED <<kind, req, calls, slot, ci, tfd, hba, disk, memory>>

Driver == Describe \/ Frame \/ IdleSpin \/ Issue \/ PollSpin \/ PollError \/ PollEnd

-----------------------------------------------------------------------------
(* The controller. It fetches a command, when the disk is ready, and reads *)
(* the descriptor then or at the transfer.                                 *)
Fetch ==
  /\ ci = 1 /\ tfd = "ready"
  /\ hba' = slot
  /\ tfd' = "busy"
  /\ UNCHANGED <<call, ci, disk, memory>>

Complete ==
  /\ tfd = "busy"
  /\ \E buf \in {hba.buf, slot.buf} :
       IF hba.op = "read"
       THEN memory' = [memory EXCEPT ![buf] = disk[hba.lba]] /\ UNCHANGED disk
       ELSE disk' = [disk EXCEPT ![hba.lba] = memory[buf]] /\ UNCHANGED memory
  /\ ci' = 0
  /\ tfd' = "ready"
  /\ UNCHANGED <<call, hba>>

(* After an error the controller stops, with ci set; nobody restarts it.   *)
Fail ==
  /\ tfd = "busy"
  /\ tfd' = "error"
  /\ UNCHANGED <<call, ci, hba, disk, memory>>

Controller == Fetch \/ Complete \/ Fail
Next == (\E c \in Commands : SataCall(c) \/ SatapiCall(c)) \/ Driver \/ Controller

(* The CPU always executes the call; nothing is assumed of the controller. *)
Spec == Init /\ [][Next]_vars /\ WF_vars(Driver)

-----------------------------------------------------------------------------
(* The counter of a packet is set anew for the second wait, which so has   *)
(* an end; that of a hard disk may count below zero.                       *)
TypeOK ==
  /\ kind \in Kinds
  /\ pc \in {"idle", "prdt", "cfis", "wait", "poll"}
  /\ req \in Commands /\ slot \in Commands /\ hba \in Commands
  /\ timeout \in -BelowZero .. Spins
  /\ kind = "satapi" => timeout >= (IF pc = "poll" THEN 0 ELSE -1)
  /\ calls \in 0 .. MaxCalls
  /\ result \in {-1, 0}
  /\ ci \in {0, 1} /\ tfd \in {"ready", "busy", "error"}
  /\ disk \in [Lbas -> Contents] /\ memory \in [Buffers -> Contents]
  /\ abandoned \in BOOLEAN

Moved(c) == disk[c.lba] = memory[c.buf] /\ (c.op = "write" => disk[c.lba] = Written(calls))
Succeeds == pc = "poll" /\ pc' = "idle" /\ result' = 0

(* A call that returns 0 has moved its own data, the sector to the buffer  *)
(* or the buffer to the sector, as long as no call has timed out. A read   *)
(* from a hard disk has even then, with the command of an earlier call     *)
(* still under way: one counter serves both waits, and whoever finds the   *)
(* disk busy for too long fails.                                           *)
SuccessMeansMoved ==
  [][ Succeeds /\ (~abandoned \/ (kind = "sata" /\ req.op = "read")) => Moved(req) ]_vars

(* As long as no call has timed out the controller executes nothing but    *)
(* the call in progress: its DMA reaches no buffer that was given back.    *)
NothingLeftBehind ==
  ~abandoned /\ tfd = "busy" => pc = "poll" /\ hba = req /\ slot = req

(* Every call returns, whatever the controller does, except the SATA call  *)
(* whose idle wait used the counter up: its second wait has no end but ci. *)
CallsReturn ==
  pc # "idle" ~> \/ pc = "idle"
                 \/ kind = "sata" /\ pc = "poll" /\ timeout < 0
=============================================================================
