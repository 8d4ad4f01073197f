-------------------------- MODULE LocalAttestation --------------------------
(***************************************************************************)
(* The attestation software of the Proteus core: main.c and capattest.c    *)
(* load enclaves and invoke them; enclave_entry.S dispatches an invocation *)
(* and calls and returns between enclaves; user_enclave.S attests the      *)
(* sensor enclave and asks it for readings; sensor_enclave.S answers.      *)
(* Traps, EnclaveTraps, happen between any two steps.  The Morello port of *)
(* the software keeps its stack differently and has no trusted traps.      *)
(*                                                                         *)
(* A capability passed in ca0 is a record: kind says what it points to,    *)
(* enc and sign with whose encryption or signing seal it is sealed, or for *)
(* a struct enclave, whose seals it holds (its code and data capabilities  *)
(* are those of the enclave of its encryption seal).  A stack is counted   *)
(* in capabilities from its top: csp is the number of slots in use.        *)
(***************************************************************************)
EXTENDS EnclaveTraps

CONSTANTS
    Identity,    \* the measured code of an enclave: "user" or "sensor"
    Ports,       \* "proteus" and "morello": whose software runs
    LoadOrder,   \* the order in which main loads the enclaves
    MainCalls,   \* the enclaves main invokes
    HandlerCalls, \* the enclaves handlers of interrupts invoke
    Nonces,      \* nonces main uses
    StackSlots,  \* slots between the top of the stack and the enclave's data
    MaxUses      \* bound: calls of use_sensor

ASSUME AttestationAssumption ==
    /\ Ports \subseteq {"proteus", "morello"}
    /\ Enclaves = {LoadOrder[i] : i \in 1 .. Len(LoadOrder)}
    /\ MainCalls \cup HandlerCalls \subseteq Enclaves
    /\ Identity \in [Enclaves -> {"user", "sensor"}]
    /\ StackSlots \in Nat /\ MaxUses \in Nat

VARIABLES
    memory,   \* of main: the port, the enclaves loaded, nonce and result of the arguments
    frames,   \* of handlers: the sealed c31 they keep while they invoke
    data,     \* data sections of the enclaves: csp, sensor, buffer, answer, stack
    readings, \* history: [enclave, user] of every reading since use_sensor began
    uses      \* calls of use_sensor

vars == <<regs, trap, mcause, traps, want, memory, frames, data, readings, uses>>

NoCsp == StackSlots + 4
Reading == 123

(* What enclave_invoke pushes: the caller's cra, and where to go on. *)
Caller(ra) == [Null EXCEPT !.kind = "cra", !.enc = ra]
GoOn == [Null EXCEPT !.kind = "resume"]

NoEnclave == [enc |-> "none", sign |-> "none"]

Init ==
    /\ InitTraps
    /\ \E p \in Ports : memory = [port |-> p, loaded |-> {}, loading |-> {}, nonce |-> 0, result |-> 0, ok |-> FALSE]
    /\ frames = <<>>
    /\ data = [e \in Enclaves |-> [csp |-> NoCsp, sensor |-> NoEnclave,
                                   buffer |-> [nonce |-> 0, result |-> 0],
                                   answer |-> Null,
                                   stack |-> [i \in 1 .. StackSlots + 3 |-> Null]]]
    /\ readings = {} /\ uses = 0

Runs(label) == regs.at[1] \in Enclaves /\ regs.at[2] = label
Here == regs.at[1]
OnProteus == memory.port = "proteus"
OnMorello == memory.port = "morello"
Goto(label) == [regs EXCEPT !.at = At(Here, label)]

(* CInvoke of e: its data section comes into c31.  Software passes its own
   return address in cra, an enclave its sealed capabilities in cra and cs0. *)
Entered(e, a0, a7, ra) == [Blank(At(e, "entry"), Unsealed(e)) EXCEPT !.a0 = a0, !.a7 = a7,
                                                                     !.ra = ra]

----------------------------------------------------------------------------
(* Software: main, and interrupt handlers that invoke enclaves. *)

(* load_enclave: unique_alloc, copy_code and enclave_init up to CInvoke. *)
LoadEnclave(e) ==
    /\ regs.at = At("main", "idle") /\ e \notin memory.loaded
    /\ \A i \in 1 .. Len(LoadOrder) : LoadOrder[i] = e =>
         \A j \in 1 .. i - 1 : LoadOrder[j] \in memory.loaded
    /\ memory' = [memory EXCEPT !.loading = {e}, !.ok = FALSE]
    /\ regs' = Entered(e, Null, 0, "main")
    /\ UNCHANGED <<trap, mcause, traps, want, frames, data, readings, uses>>

(* enclave_invoke(user, sensor, 1): any of the structs main holds. *)
SetSensor(u, enc, sign) ==
    /\ regs.at = At("main", "idle")
    /\ u \in memory.loaded \cap MainCalls /\ Identity[u] = "user"
    /\ {enc, sign} \subseteq memory.loaded
    /\ regs' = Entered(u, [kind |-> "struct", enc |-> enc, sign |-> sign], 1, "main")
    /\ memory' = [memory EXCEPT !.ok = FALSE]
    /\ UNCHANGED <<trap, mcause, traps, want, frames, data, readings, uses>>

(* enclave_invoke(user, args, 2). *)
UseSensor(u, nonce) ==
    /\ regs.at = At("main", "idle") /\ uses < MaxUses
    /\ u \in memory.loaded \cap MainCalls /\ data[u].sensor # NoEnclave
    /\ uses' = uses + 1 /\ readings' = {}
    /\ memory' = [memory EXCEPT !.nonce = nonce, !.result = 0, !.ok = FALSE]
    /\ regs' = Entered(u, [Null EXCEPT !.kind = "args"], 2, "main")
    /\ UNCHANGED <<trap, mcause, traps, want, frames, data>>

(* The end of enclave_init and of enclave_invoke: the result is stored, and
   c31 comes back from the variable that keeps it. *)
InvokeReturns ==
    /\ regs.at = At("main", "back")
    /\ memory' = [memory EXCEPT !.loaded = @ \cup memory.loading, !.loading = {},
                                !.ok = regs.a0.kind = "args" /\ regs.a0.sign # "none"]
    /\ regs' = Blank(At("main", "idle"), Unsealed("main"))
    /\ UNCHANGED <<trap, mcause, traps, want, frames, data, readings, uses>>

(* A callback of isr enables interrupts and invokes an enclave. *)
HandlerInvokes(u) ==
    /\ regs.at = At("handler", "isr") /\ mcause = "interrupt" /\ frames = <<>>
    /\ u \in memory.loaded \cap HandlerCalls
    /\ frames' = <<regs.c31>>
    /\ regs' = Entered(u, [kind |-> "struct", enc |-> u, sign |-> u], 1, "handler")
    /\ UNCHANGED <<trap, mcause, traps, want, memory, data, readings, uses>>

HandlerResumes ==
    /\ regs.at = At("handler", "back")
    /\ regs' = Blank(At("handler", "isr"), Head(frames))
    /\ frames' = Tail(frames)
    /\ UNCHANGED <<trap, mcause, traps, want, memory, data, readings, uses>>

----------------------------------------------------------------------------
(* enclave_entry.S. *)

(* The dispatch on a7.  Before init the stack pointer has no tag. *)
EnclaveEntry ==
    /\ Runs("entry")
    /\ regs' = CASE regs.a7 = 0 -> Goto("init")
                 [] regs.a7 # 0 /\ data[Here].csp = NoCsp -> Goto("exit")
                 [] regs.a7 # 0 /\ data[Here].csp # NoCsp ->
                      [Goto(CASE regs.a7 = -1 -> "return_entry"
                              [] regs.a7 = 1 /\ Identity[Here] = "user" -> "set_sensor_enclave"
                              [] regs.a7 = 2 /\ Identity[Here] = "user" -> "use_sensor"
                              [] regs.a7 = 1 /\ Identity[Here] = "sensor" -> "read"
                              [] OTHER -> "exit")
                       EXCEPT !.csp = data[Here].csp]
    /\ UNCHANGED <<trap, mcause, traps, want, memory, frames, data, readings, uses>>

EnclaveInit ==
    /\ Runs("init")
    /\ data' = [data EXCEPT ![Here].csp = 0]
    /\ regs' = Goto("exit")
    /\ UNCHANGED <<trap, mcause, traps, want, memory, frames, readings, uses>>

(* enclave_exit: the section leaves c31, and software goes on without one. *)
EnclaveExit ==
    /\ Runs("exit")
    /\ regs' = [Blank(At(regs.ra, "back"), NoSection) EXCEPT !.a0 = regs.a0]
    /\ UNCHANGED <<trap, mcause, traps, want, memory, frames, data, readings, uses>>

(* enclave_invoke: cra and the return address are pushed. *)
EnclaveInvoke ==
    LET sp == regs.csp + 2 IN
    /\ OnProteus /\ Runs("enclave_invoke")
    /\ data' = [data EXCEPT ![Here].csp = sp,
                            ![Here].stack[sp - 1] = Caller(regs.ra), ![Here].stack[sp] = GoOn]
    /\ regs' = Entered(data[Here].sensor.enc, regs.a0, 1, Here)
    /\ UNCHANGED <<trap, mcause, traps, want, memory, frames, readings, uses>>

(* Mutant: one pop too few. *)
PoppedLess(sp) == sp - 1

(* What enclave_return_entry leaves on the stack. *)
Popped(sp) == sp - 2

(* Where it goes on. *)
ReturnTo(sp) == data[Here].stack[sp].kind

(* enclave_return_entry: both are popped, and csp is stored. *)
EnclaveReturnEntry ==
    LET sp == regs.csp IN
    /\ OnProteus /\ Runs("return_entry")
    /\ data' = [data EXCEPT ![Here].csp = Popped(sp)]
    /\ regs' = [Goto(ReturnTo(sp)) EXCEPT !.ra = data[Here].stack[sp - 1].enc,
                                          !.csp = Popped(sp)]
    /\ UNCHANGED <<trap, mcause, traps, want, memory, frames, readings, uses>>

(* enclave_return. *)
EnclaveReturn ==
    /\ Runs("return")
    /\ regs' = Entered(regs.ra, regs.a0, -1, "none")
    /\ UNCHANGED <<trap, mcause, traps, want, memory, frames, data, readings, uses>>

----------------------------------------------------------------------------
(* user_enclave.S and sensor_enclave.S. *)

(* Mutant: the signing seal is not compared with the encryption seal. *)
AttestedEncOnly(enc, sign) == Identity[enc] = "sensor"

(* EStoreId of the encryption seal's enclave returns the expected identity,
   and the signing seal's base is one larger. *)
Attested(enc, sign) == Identity[enc] = "sensor" /\ sign = enc

SetSensorEnclave ==
    /\ Runs("set_sensor_enclave")
    /\ IF Attested(regs.a0.enc, regs.a0.sign)
       THEN /\ data' = [data EXCEPT ![Here].sensor = [enc |-> regs.a0.enc,
                                                      sign |-> regs.a0.sign]]
            /\ regs' = Goto("exit")
       ELSE /\ regs' = [Goto("exit") EXCEPT !.a0 = Null]
            /\ UNCHANGED data
    /\ UNCHANGED <<trap, mcause, traps, want, memory, frames, readings, uses>>

(* use_sensor up to the call: ca0 is pushed, the buffer gets the nonce and
   is sealed for the sensor. *)
UseSensorCalls ==
    LET sp == regs.csp + 1 IN
    /\ OnProteus /\ Runs("use_sensor")
    /\ data' = [data EXCEPT ![Here].stack[sp] = regs.a0,
                            ![Here].buffer.nonce = memory.nonce]
    /\ regs' = [Goto("enclave_invoke") EXCEPT
                   !.csp = sp,
                   !.a0 = [Null EXCEPT !.kind = "buffer", !.enc = data[Here].sensor.enc]]
    /\ UNCHANGED <<trap, mcause, traps, want, memory, frames, readings, uses>>

(* Mutant: the reading is not stored. *)
ReadUnstored ==
    /\ Runs("read")
    /\ data' = [data EXCEPT ![Here].answer = [Null EXCEPT !.kind = "buffer", !.enc = regs.ra]]
    /\ readings' = readings \cup {[by |-> Here, to |-> regs.ra]}
    /\ regs' = [Goto("return") EXCEPT !.a0 = [Null EXCEPT !.kind = "answer", !.sign = Here]]
    /\ UNCHANGED <<trap, mcause, traps, want, memory, frames, uses>>

(* read: the reading goes into the caller's buffer, which is sealed with the
   caller's seal; the answer is signed. *)
Read ==
    /\ Runs("read")
    /\ data' = [data EXCEPT ![regs.ra].buffer.result = Reading,
                            ![Here].answer = [Null EXCEPT !.kind = "buffer", !.enc = regs.ra]]
    /\ readings' = readings \cup {[by |-> Here, to |-> regs.ra]}
    /\ regs' = [Goto("return") EXCEPT !.a0 = [Null EXCEPT !.kind = "answer", !.sign = Here]]
    /\ UNCHANGED <<trap, mcause, traps, want, memory, frames, uses>>

(* The answer is unsealed with the sensor's signing seal, its content with
   the own seal. *)
AnswerUnseals ==
    regs.a0.sign = data[Here].sensor.sign /\ data[data[Here].sensor.sign].answer.enc = Here

(* If the nonces agree the result is doubled and stored in main's arguments,
   args, which are signed; ra is where to return. *)
Processed(args, ra) ==
    LET mine == data[Here]
        ok == mine.buffer.nonce = memory.nonce
    IN  /\ regs' = [Goto("exit") EXCEPT !.ra = ra,
                                           !.a0 = IF ok THEN [args EXCEPT !.sign = Here]
                                                        ELSE Null]
        /\ memory' = IF ok THEN [memory EXCEPT !.result = 2 * mine.buffer.result] ELSE memory

(* use_sensor after the call.  The csp that is left is not stored. *)
UseSensorResumes ==
    /\ OnProteus /\ Runs("resume") /\ AnswerUnseals
    /\ Processed(data[Here].stack[regs.csp], regs.ra)
    /\ UNCHANGED <<trap, mcause, traps, want, frames, data, readings, uses>>

----------------------------------------------------------------------------
(* The Morello port: use_sensor pushes the return address itself, and stores
   the stack pointer once everything is popped. *)

MorelloUseSensor ==
    LET sp == regs.csp + 2 IN
    /\ OnMorello /\ Runs("use_sensor")
    /\ data' = [data EXCEPT ![Here].stack[sp - 1] = regs.a0,
                            ![Here].stack[sp] = Caller(regs.ra),
                            ![Here].buffer.nonce = memory.nonce]
    /\ regs' = [Goto("enclave_invoke") EXCEPT
                   !.csp = sp,
                   !.a0 = [Null EXCEPT !.kind = "buffer", !.enc = data[Here].sensor.enc]]
    /\ UNCHANGED <<trap, mcause, traps, want, memory, frames, readings, uses>>

MorelloEnclaveInvoke ==
    LET sp == regs.csp + 1 IN
    /\ OnMorello /\ Runs("enclave_invoke")
    /\ data' = [data EXCEPT ![Here].csp = sp, ![Here].stack[sp] = GoOn]
    /\ regs' = Entered(data[Here].sensor.enc, regs.a0, 1, Here)
    /\ UNCHANGED <<trap, mcause, traps, want, memory, frames, readings, uses>>

MorelloReturnEntry ==
    /\ OnMorello /\ Runs("return_entry")
    /\ regs' = [Goto(ReturnTo(regs.csp)) EXCEPT !.csp = @ - 1]
    /\ UNCHANGED <<trap, mcause, traps, want, memory, frames, data, readings, uses>>

(* use_sensor from backu on. *)
MorelloUseSensorResumes ==
    LET sp == regs.csp IN
    /\ OnMorello /\ Runs("resume") /\ AnswerUnseals
    /\ data' = [data EXCEPT ![Here].csp = sp - 2]
    /\ Processed(data[Here].stack[sp - 1], data[Here].stack[sp].enc)
    /\ UNCHANGED <<trap, mcause, traps, want, frames, readings, uses>>

----------------------------------------------------------------------------
Trap == /\ OnProteus
        /\ \E cause \in {"interrupt", "syscall"} : TrustedTrap(cause)
        /\ UNCHANGED <<memory, frames, data, readings, uses>>

Return == TrapReturn /\ UNCHANGED <<memory, frames, data, readings, uses>>

EnclaveStep ==
    \/ EnclaveEntry \/ EnclaveInit \/ EnclaveExit \/ EnclaveInvoke \/ EnclaveReturnEntry
    \/ EnclaveReturn \/ SetSensorEnclave \/ UseSensorCalls \/ Read \/ UseSensorResumes
    \/ MorelloUseSensor \/ MorelloEnclaveInvoke \/ MorelloReturnEntry
    \/ MorelloUseSensorResumes

MainStep ==
    \/ \E e \in Enclaves : LoadEnclave(e)
    \/ \E u, enc, sign \in Enclaves : SetSensor(u, enc, sign)
    \/ \E u \in Enclaves, n \in Nonces : UseSensor(u, n)

HandlerStep ==
    \/ Return
    \/ \E u \in Enclaves : HandlerInvokes(u)
    \/ HandlerResumes

Next == EnclaveStep \/ MainStep \/ InvokeReturns \/ HandlerStep \/ Trap

Spec == Init /\ [][Next]_vars

(* Code runs on; a handler invokes enclaves only so often before it returns. *)
FairSpec == Spec /\ WF_vars(EnclaveStep \/ InvokeReturns \/ HandlerResumes)
                 /\ SF_vars(Return)
----------------------------------------------------------------------------
(* Type correctness: registers and data sections hold only what the code
   puts there, in particular stack pointers stay in the section. *)
TypeOK ==
    /\ regs.at[1] \in Section \cup {"handler", "none"}
    /\ regs.at[2] \in {"idle", "back", "isr", "fault", "error", "entry", "init", "exit",
                       "enclave_invoke", "return_entry", "return", "set_sensor_enclave",
                       "use_sensor", "resume", "read"}
    /\ regs.c31.of \in Section \cup {"none"} /\ regs.c31.sealed \in BOOLEAN
    /\ regs.a7 \in {-1, 0, 1, 2} /\ regs.csp \in 0 .. StackSlots + 3
    /\ \A e \in Enclaves : /\ data[e].csp \in 0 .. StackSlots + 3 \cup {NoCsp}
                           /\ data[e].sensor.enc \in Enclaves \cup {"none"}
                           /\ data[e].buffer.nonce \in Nonces \cup {0}
    /\ memory.loaded \subseteq Enclaves
    /\ mcause \in {"none", "interrupt", "syscall"} /\ traps \in 0 .. MaxTraps
    /\ uses \in 0 .. MaxUses

(* A trap is invisible to the code it interrupts: when the handler returns,
   the code goes on where it was, with the registers it had; only the result
   of its own system call is new (_trusted_trap_handler to
   _trusted_trap_return, which take the registers through the data section). *)
ResumesAsInterrupted ==
    [][regs.at = At("handler", "isr") /\ regs'.at[1] \in Section /\ frames' = frames =>
         LET was == Head(want[regs.c31.of]) IN
         IF was.cause = "syscall" THEN regs' = [was.regs EXCEPT !.a0 = SyscallResult]
                                  ELSE regs' = was.regs]_vars

(* The enclave the user enclave asks for readings is a sensor enclave: its
   encryption and its signing seal belong to one enclave, whose identity was
   checked (set_sensor_enclave). *)
AttestedSensor ==
    \A u \in Enclaves : LET s == data[u].sensor IN
        s # NoEnclave => Identity[s.enc] = "sensor" /\ s.sign = s.enc

(* A result main accepts is a reading the attested sensor made for this call,
   doubled, whatever traps and calls came in between. *)
ResultIsReading ==
    memory.ok => /\ memory.result = 2 * Reading
                 /\ \E r \in readings : r.by = data[r.to].sensor.enc
                 /\ \E u \in Enclaves : data[u].buffer.nonce = memory.nonce

(* The stack of an enclave stays above the enclave's data, as the layout at
   the head of enclave_entry.S has it, over any sequence of calls. *)
StackAboveData == regs.csp <= StackSlots /\
    \A e \in Enclaves : data[e].csp # NoCsp => data[e].csp <= StackSlots

(* Registers and data sections hold what the code puts there, and stack
   pointers point into the stacks. *)
StackInSection == TypeOK /\ StackAboveData

(* Every invocation returns to main: the enclaves call and return through
   capabilities kept on their stacks, with traps in between. *)
InvocationsReturn == [](regs.at # At("main", "idle") => <>(regs.at = At("main", "idle")))

=============================================================================
