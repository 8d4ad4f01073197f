---------------------------- MODULE EnclaveTraps ----------------------------
(***************************************************************************)
(* The trusted trap handler of the Proteus software (trusted_traps.S,      *)
(* trusted_init.c).  Code runs with the capability of its data section in  *)
(* c31; a trap saves the registers there, seals c31 and calls the          *)
(* untrusted handler, which returns to have the registers restored.        *)
(* Traps are disabled while the handler runs.                              *)
(*                                                                         *)
(* The registers of the running code are one record: at is where it is     *)
(* (whose code, and a label), c31 the section it runs with, and the other  *)
(* fields what the code keeps in registers across a step.                  *)
(***************************************************************************)
EXTENDS Naturals, Integers, Sequences

CONSTANTS
    Enclaves,     \* the enclaves
    TrapData,     \* the sections large enough for the trap data
    MaxTraps,     \* bound: number of traps
    WindowTraps   \* traps also happen while c31 holds no section

ASSUME TrapsAssumption ==
    /\ {"main", "handler", "none"} \cap Enclaves = {}
    /\ TrapData \subseteq Enclaves \cup {"main"} /\ MaxTraps \in Nat
    /\ WindowTraps \in BOOLEAN

(* Sections: of the enclaves, and non_enclave_trap_data. *)
Section == Enclaves \cup {"main"}

VARIABLES
    regs,    \* the registers of the running code
    trap,    \* the trap data of every section
    mcause,  \* the cause of the last trap
    traps,   \* number of traps so far
    want     \* history: what the code of a section had when it was trapped

trapVars == <<trap, mcause, traps, want>>

At(who, label) == <<who, label>>

NoSection == [of |-> "none", sealed |-> FALSE]
Unsealed(d) == [of |-> d, sealed |-> FALSE]

Null == [kind |-> "null", enc |-> "none", sign |-> "none"]

Blank(at, c31) == [at |-> at, c31 |-> c31, a0 |-> Null, a7 |-> 0, ra |-> "none", csp |-> 0]

(* init_capabilities: MTCC, MTDC and c31 are set up, nothing is trapped. *)
InitTraps ==
    /\ regs = Blank(At("main", "idle"), Unsealed("main"))
    /\ trap = [d \in Section |-> [tag |-> FALSE, epcc |-> At("none", "none"),
                                  saved |-> Blank(At("none", "none"), NoSection)]]
    /\ mcause = "none" /\ traps = 0
    /\ want = [d \in Section |-> <<>>]

(* Mutant: the address of the trapped code is not stored. *)
TrapDataNextUnstored(d) ==
    [trap EXCEPT ![d].saved = IF trap[d].tag THEN @ ELSE regs]

(* The trap data of section d after a trap.  The registers are kept if d is
   in an interrupted state already; mepcc is stored in either case. *)
TrapDataNext(d) ==
    [trap EXCEPT ![d].saved = IF trap[d].tag THEN @ ELSE regs,
                 ![d].epcc = regs.at, ![d].tag = TRUE]

(* _trusted_trap_handler.  Without a section for the trap data its stores
   fault: the handler traps into itself, for ever. *)
TrustedTrap(cause) ==
    LET d == regs.c31.of IN
    /\ traps < MaxTraps /\ regs.at[1] \notin {"handler", "none"}
    /\ cause = "syscall" => regs.at = At("main", "idle")
    /\ d = "none" => WindowTraps
    /\ traps' = traps + 1 /\ mcause' = cause
    /\ IF d \in TrapData
       THEN /\ trap' = TrapDataNext(d)
            /\ regs' = [Blank(At("handler", "isr"), [of |-> d, sealed |-> TRUE])
                        EXCEPT !.a0 = regs.a0]
            /\ want' = [want EXCEPT ![d] = <<[regs |-> regs, cause |-> cause]>> \o @]
       ELSE /\ regs' = Blank(At("none", "fault"), regs.c31)
            /\ UNCHANGED <<trap, want>>

(* What the syscall returns in a0. *)
SyscallResult == [Null EXCEPT !.kind = "result"]

(* Mutant: a0 of the handler is taken for the result of every trap. *)
RestoredAlways(d) == [trap[d].saved EXCEPT !.at = trap[d].epcc, !.a0 = SyscallResult]

(* The registers _trusted_trap_return restores; mcause is read again. *)
Restored(d) ==
    [trap[d].saved EXCEPT !.at = trap[d].epcc,
                          !.a0 = IF mcause = "syscall" THEN SyscallResult ELSE @]

(* _untrusted_trap_return and _trusted_trap_return. *)
TrapReturn ==
    LET d == regs.c31.of IN
    /\ regs.at = At("handler", "isr")
    /\ IF trap[d].tag
       THEN /\ regs' = Restored(d)
            /\ trap' = [trap EXCEPT ![d].tag = FALSE,
                                    ![d].saved = Blank(At("none", "none"), NoSection)]
            /\ want' = [want EXCEPT ![d] = Tail(@)]
       ELSE /\ regs' = Blank(At("none", "error"), regs.c31)
            /\ UNCHANGED <<trap, want>>
    /\ UNCHANGED <<mcause, traps>>
=============================================================================
