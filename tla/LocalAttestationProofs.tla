----------------------- MODULE LocalAttestationProofs -----------------------
(***************************************************************************)
(* Theorems about LocalAttestation: whatever traps and calls come in       *)
(* between, a trap is invisible to the code it interrupts, stacks stay     *)
(* above the data, and a result main accepts is a reading; for every set   *)
(* of enclaves, nonces, and any number of traps, as long as handlers       *)
(* invoke enclaves of their own and the stack has room for the calls of    *)
(* use_sensor.  That the sensor a user asks is attested needs neither.     *)
(***************************************************************************)
EXTENDS LocalAttestation, TLAPS

-----------------------------------------------------------------------------
(* What the theorems ask of the constants.                                 *)

(* Handlers invoke enclaves main does not invoke, which run the user code. *)
Separate == HandlerCalls \cap MainCalls = {} /\ \A h \in HandlerCalls : Identity[h] = "user"

(* The stack has room for one call of use_sensor, and on Proteus for the
   slot that every earlier call has left on it. *)
Roomy ==
    MaxUses > 0 => 3 <= StackSlots /\ ("proteus" \in Ports => MaxUses + 2 <= StackSlots)

-----------------------------------------------------------------------------
(* The inductive invariant.                                                *)

Who == Enclaves \cup {"main", "handler", "none"}
Label == {"none", "idle", "back", "isr", "fault", "error", "entry", "init", "exit",
          "enclave_invoke", "return_entry", "return", "set_sensor_enclave",
          "use_sensor", "resume", "read"}
Kind == {"null", "cra", "resume", "struct", "args", "buffer", "answer", "result"}
Cap == [kind : Kind, enc : Who, sign : Who]
C31 == [of : Section \cup {"none"}, sealed : BOOLEAN]
Regs == [at : Who \X Label, c31 : C31, a0 : Cap, a7 : {-1, 0, 1, 2}, ra : Who,
         csp : 0 .. StackSlots]
Cause == {"none", "interrupt", "syscall"}
TrapRecord == [tag : BOOLEAN, epcc : Who \X Label, saved : Regs]
Memory == [port : Ports, loaded : SUBSET Enclaves, loading : SUBSET Enclaves,
           nonce : Nonces \cup {0}, result : Nat, ok : BOOLEAN]
Sensor == [enc : Enclaves \cup {"none"}, sign : Enclaves \cup {"none"}]
Buffer == [nonce : Nonces \cup {0}, result : Nat]
Stack == [1 .. StackSlots + 3 -> Cap]
DataSection == [csp : (0 .. StackSlots) \cup {NoCsp}, sensor : Sensor, buffer : Buffer,
                answer : Cap, stack : Stack]

Types ==
    /\ regs \in Regs /\ memory \in Memory /\ data \in [Enclaves -> DataSection]
    /\ uses \in 0 .. MaxUses

(* What main has loaded is initialised, and a sensor is an attested enclave
   that main has loaded, kept by an enclave that runs the user code. *)
Loaded == \A e \in memory.loaded : data[e].csp # NoCsp

Attests(u, s) ==
    /\ Identity[u] = "user" /\ Identity[s.enc] = "sensor" /\ s.sign = s.enc
    /\ s.enc \in memory.loaded

Sensors == \A u \in Enclaves : data[u].sensor # NoEnclave => Attests(u, data[u].sensor)

(* The sensor has answered u, and the result main gets is its reading. *)
Reads(u) == /\ data[u].buffer.nonce = memory.nonce
            /\ [by |-> data[u].sensor.enc, to |-> u] \in readings

Answered(u) == data[u].buffer.result = Reading /\ Reads(u)

Accepted == memory.result = 2 * Reading /\ \E u \in Enclaves : Reads(u)

Accepts(a0) == a0.kind = "args" /\ a0.sign # "none" => Accepted

(* What a stack holds between calls, after n of them. *)
Left(c, n) == c <= IF OnProteus THEN n ELSE 0
Rests(e) == data[e].csp # NoCsp => Left(data[e].csp, uses)
AllRest == \A e \in Enclaves : Rests(e)
OthersRest(u) == \A e \in Enclaves \ {u} : Rests(e)

(* The stack of u while it waits for the sensor. *)
InCall(u) ==
    LET c == data[u].csp IN
    /\ c # NoCsp /\ c >= 3 /\ Left(c - 3, uses - 1)
    /\ data[u].stack[c] = GoOn /\ data[u].stack[c - 1] = Caller("main")
    /\ OthersRest(u)

In(r, e, label) == r.at = At(e, label) /\ r.c31 = Unsealed(e)

(* An enclave main has invoked, and one it has told to use the sensor. *)
Client(u) == u \in memory.loaded \cap MainCalls /\ memory.loading = {} /\ memory.ok = FALSE
User(u) == Client(u) /\ data[u].sensor # NoEnclave /\ uses > 0

(* The stages of main and of the enclaves it invokes, with the registers r. *)
MainIdle(r) == In(r, "main", "idle") /\ memory.loading = {} /\ AllRest

MainBack(r) ==
    /\ r.at = At("main", "back") /\ r.c31 = NoSection /\ memory.ok = FALSE
    /\ Accepts(r.a0) /\ AllRest
    /\ \A e \in memory.loading : data[e].csp # NoCsp

Loads(r, e) ==
    /\ In(r, e, "entry") \/ In(r, e, "init")
    /\ r.a7 = 0 /\ r.ra = "main" /\ r.a0 = Null
    /\ memory.loading = {e} /\ e \notin memory.loaded /\ memory.ok = FALSE /\ AllRest

Sets(r, u) ==
    /\ In(r, u, "entry") \/ In(r, u, "set_sensor_enclave")
    /\ r.a7 = 1 /\ r.ra = "main" /\ Client(u) /\ Identity[u] = "user" /\ AllRest
    /\ r.a0.kind = "struct" /\ r.a0.enc \in memory.loaded /\ r.a0.sign \in memory.loaded

Begins(r, u) ==
    /\ In(r, u, "entry") \/ (In(r, u, "use_sensor") /\ r.csp = data[u].csp)
    /\ r.a7 = 2 /\ r.ra = "main" /\ User(u) /\ OthersRest(u)
    /\ Left(data[u].csp, uses - 1)

Calls(r, u) ==
    /\ In(r, u, "enclave_invoke") /\ User(u) /\ OthersRest(u)
    /\ Left(data[u].csp, uses - 1) /\ data[u].buffer.nonce = memory.nonce
    /\ OnProteus => r.csp = data[u].csp + 1 /\ r.ra = "main"
    /\ OnMorello => r.csp = data[u].csp + 2 /\ data[u].stack[r.csp] = Caller("main")

Asks(r, u) ==
    /\ In(r, data[u].sensor.enc, "entry") \/ In(r, data[u].sensor.enc, "read")
    /\ r.a7 = 1 /\ r.ra = u /\ User(u) /\ InCall(u) /\ data[u].buffer.nonce = memory.nonce

Answers(r, u) ==
    In(r, data[u].sensor.enc, "return") /\ r.ra = u /\ User(u) /\ InCall(u) /\ Answered(u)

Returns(r, u) ==
    /\ In(r, u, "entry") \/ (In(r, u, "return_entry") /\ r.csp = data[u].csp)
    /\ r.a7 = -1 /\ User(u) /\ InCall(u) /\ Answered(u)

Resumes(r, u) ==
    /\ In(r, u, "resume") /\ User(u) /\ Answered(u)
    /\ OnProteus => AllRest /\ r.ra = "main" /\ r.csp > 0
    /\ OnMorello => InCall(u) /\ r.csp = data[u].csp - 1

Leaves(r, e) ==
    /\ In(r, e, "exit") /\ r.ra = "main" /\ memory.ok = FALSE /\ Accepts(r.a0) /\ AllRest
    /\ data[e].csp # NoCsp
    /\ \/ memory.loading = {e} /\ e \notin memory.loaded
       \/ memory.loading = {} /\ e \in MainCalls

Stage(r, e) ==
    \/ Loads(r, e) \/ Sets(r, e) \/ Begins(r, e) \/ Calls(r, e) \/ Asks(r, e)
    \/ Answers(r, e) \/ Returns(r, e) \/ Resumes(r, e) \/ Leaves(r, e)

MainOK(r) == MainIdle(r) \/ MainBack(r) \/ \E e \in Enclaves : Stage(r, e)

(* The stages of an enclave that a handler invokes. *)
HandlerRuns(r) ==
    \E h \in memory.loaded \cap HandlerCalls :
        \/ /\ In(r, h, "entry") \/ In(r, h, "set_sensor_enclave")
           /\ r.a7 = 1 /\ r.ra = "handler" /\ r.a0.enc = h
        \/ In(r, h, "exit") /\ r.ra = "handler"

HandlerOK(r) == HandlerRuns(r) \/ r.at = At("handler", "back")

(* The handler runs and section d is sealed in c31; section d keeps the
   registers of the code that was trapped; the sections of S keep none. *)
SealedC31(d) == [of |-> d, sealed |-> TRUE]

Isr(d) == regs.at = At("handler", "isr") /\ regs.c31 = SealedC31(d)

Trapped(d, cause) ==
    LET saved == trap[d].saved IN
    /\ trap[d].tag = TRUE /\ trap[d].epcc = saved.at /\ saved.c31 = Unsealed(d)
    /\ want[d] = <<[regs |-> saved, cause |-> cause]>>
    /\ cause = "syscall" => saved.at = At("main", "idle")

Untrapped(S) == \A d \in S : trap[d].tag = FALSE /\ want[d] = <<>>

(* How deep traps and handlers are nested: none; a handler; a handler that
   has invoked an enclave; a handler of a trap of that enclave. *)
Level0 == frames = <<>> /\ Untrapped(Section) /\ MainOK(regs)

Level1 == \E d \in Section :
    /\ Isr(d) /\ frames = <<>> /\ Trapped(d, mcause) /\ MainOK(trap[d].saved)
    /\ Untrapped(Section \ {d})

Invoking(d) ==
    /\ frames = <<SealedC31(d)>> /\ Trapped(d, "interrupt") /\ mcause = "interrupt"
    /\ MainOK(trap[d].saved)

Level2 == \E d \in Section : Invoking(d) /\ HandlerOK(regs) /\ Untrapped(Section \ {d})

Level3 == \E d \in Section, h \in Section :
    /\ Invoking(d) /\ d # h /\ Isr(h) /\ Trapped(h, "interrupt")
    /\ HandlerRuns(trap[h].saved) /\ Untrapped(Section \ {d, h})

(* The trap handler could not save the registers: nothing runs any more. *)
Faulted == regs.at = At("none", "fault")

Levels == Level0 \/ Level1 \/ Level2 \/ Level3 \/ Faulted

TrapTypes ==
    /\ trap \in [Section -> TrapRecord] /\ mcause \in Cause /\ traps \in 0 .. MaxTraps
    /\ want \in [Section -> Seq([regs : Regs, cause : Cause])]

Kept == Types /\ Loaded /\ Sensors /\ (memory.ok => Accepted)

AInv == Kept /\ TrapTypes /\ Levels

-----------------------------------------------------------------------------
(* Constants and records.                                                  *)

LEMMA NameFacts ==
    /\ "main" \notin Enclaves /\ "handler" \notin Enclaves /\ "none" \notin Enclaves
    /\ TrapData \subseteq Section /\ Enclaves \subseteq Section /\ "main" \in Section
    /\ "handler" \notin Section /\ "none" \notin Section
    /\ Enclaves \subseteq Who /\ Section \subseteq Who
    /\ MainCalls \subseteq Enclaves /\ HandlerCalls \subseteq Enclaves
    /\ Identity \in [Enclaves -> {"user", "sensor"}]
    /\ StackSlots \in Nat /\ MaxUses \in Nat /\ MaxTraps \in Nat
    /\ Ports \subseteq {"proteus", "morello"} /\ NoCsp \notin 0 .. StackSlots
<1>1. "main" \notin Enclaves /\ "handler" \notin Enclaves /\ "none" \notin Enclaves
  BY TrapsAssumption
<1>2. /\ TrapData \subseteq Section /\ Enclaves \subseteq Section /\ "main" \in Section
      /\ Enclaves \subseteq Who /\ Section \subseteq Who /\ MaxTraps \in Nat
  BY TrapsAssumption DEF Section, Who
<1>3. "handler" \notin Section /\ "none" \notin Section
  BY <1>1 DEF Section
<1>4. /\ MainCalls \subseteq Enclaves /\ HandlerCalls \subseteq Enclaves
      /\ Identity \in [Enclaves -> {"user", "sensor"}]
      /\ StackSlots \in Nat /\ MaxUses \in Nat
      /\ Ports \subseteq {"proteus", "morello"}
  BY AttestationAssumption
<1>5. NoCsp \notin 0 .. StackSlots
  BY <1>4 DEF NoCsp
<1> QED
  BY <1>1, <1>2, <1>3, <1>4, <1>5

LEMMA CapFacts ==
    /\ Null \in Cap /\ GoOn \in Cap /\ SyscallResult \in Cap
    /\ Null.kind = "null" /\ Null.enc = "none" /\ Null.sign = "none" /\ GoOn.kind = "resume"
    /\ \A w \in Who : Caller(w) \in Cap /\ Caller(w).enc = w
    /\ \A k \in Kind : \A w \in Who : /\ [Null EXCEPT !.kind = k, !.enc = w] \in Cap
                                      /\ [Null EXCEPT !.kind = k, !.sign = w] \in Cap
                                      /\ [Null EXCEPT !.kind = k] \in Cap
    /\ \A c \in Cap : \A w \in Who : [c EXCEPT !.sign = w] \in Cap
<1>1. Null \in Cap /\ Null.kind = "null" /\ Null.enc = "none" /\ Null.sign = "none"
  BY DEF Null, Cap, Kind, Who
<1>2. ASSUME NEW c \in Cap, NEW k \in Kind, NEW w \in Who
      PROVE  /\ [c EXCEPT !.kind = k, !.enc = w] \in Cap
             /\ [c EXCEPT !.kind = k, !.sign = w] \in Cap
             /\ [c EXCEPT !.kind = k] \in Cap
             /\ [c EXCEPT !.sign = w] \in Cap
             /\ [c EXCEPT !.kind = k].kind = k
             /\ [c EXCEPT !.kind = k, !.enc = w].enc = w
  <2>1. [c EXCEPT !.kind = k] \in Cap /\ [c EXCEPT !.sign = w] \in Cap
    BY DEF Cap
  <2>2. [c EXCEPT !.kind = k, !.enc = w] \in Cap
    BY DEF Cap
  <2>3. [c EXCEPT !.kind = k, !.sign = w] \in Cap
    BY DEF Cap
  <2>4. [c EXCEPT !.kind = k].kind = k /\ [c EXCEPT !.kind = k, !.enc = w].enc = w
    BY DEF Cap
  <2> QED
    BY <2>1, <2>2, <2>3, <2>4
<1>3. "resume" \in Kind /\ "result" \in Kind /\ "cra" \in Kind /\ "none" \in Who
  BY DEF Kind, Who
<1>4. GoOn \in Cap /\ SyscallResult \in Cap /\ GoOn.kind = "resume"
  BY <1>1, <1>2, <1>3 DEF GoOn, SyscallResult
<1>5. \A w \in Who : Caller(w) \in Cap /\ Caller(w).enc = w
  <2> SUFFICES ASSUME NEW w \in Who PROVE Caller(w) \in Cap /\ Caller(w).enc = w
    OBVIOUS
  <2>1. /\ [Null EXCEPT !.kind = "cra", !.enc = w] \in Cap
        /\ [Null EXCEPT !.kind = "cra", !.enc = w].enc = w
    BY <1>1, <1>3 DEF Cap
  <2> QED
    BY <2>1, Zenon DEF Caller
<1> QED
  BY <1>1, <1>2, <1>3, <1>4, <1>5

LEMMA AtFacts ==
    /\ \A a, l : At(a, l)[1] = a /\ At(a, l)[2] = l
    /\ \A a \in Who : \A l \in Label : At(a, l) \in Who \X Label
  BY DEF At

LEMMA C31Facts ==
    /\ NoSection \in C31 /\ NoSection.of = "none"
    /\ \A d \in Section : /\ Unsealed(d) \in C31 /\ Unsealed(d).of = d
                          /\ SealedC31(d) \in C31 /\ SealedC31(d).of = d
  BY DEF NoSection, C31, Unsealed, SealedC31

(* The registers a program starts with, and those of an enclave invoked. *)
LEMMA BlankFacts ==
    ASSUME NEW a \in Who, NEW l \in Label, NEW c \in C31
    PROVE  LET r == Blank(At(a, l), c) IN
           /\ r \in Regs /\ r.at = At(a, l) /\ r.c31 = c /\ r.csp = 0
           /\ \A v \in Cap : /\ [r EXCEPT !.a0 = v] \in Regs /\ [r EXCEPT !.a0 = v].at = At(a, l)
                             /\ [r EXCEPT !.a0 = v].c31 = c /\ [r EXCEPT !.a0 = v].a0 = v
<1>1. At(a, l) \in Who \X Label /\ Null \in Cap
  BY CapFacts, AtFacts
<1>2. "none" \in Who /\ 0 \in 0 .. StackSlots /\ 0 \in {-1, 0, 1, 2}
  BY NameFacts DEF Who
<1>3. Blank(At(a, l), c) \in Regs
  BY <1>1, <1>2 DEF Blank, Regs
<1>4. Blank(At(a, l), c).at = At(a, l) /\ Blank(At(a, l), c).c31 = c /\ Blank(At(a, l), c).csp = 0
  BY DEF Blank
<1>5. \A r \in Regs : \A v \in Cap :
         /\ [r EXCEPT !.a0 = v] \in Regs /\ [r EXCEPT !.a0 = v].at = r.at
         /\ [r EXCEPT !.a0 = v].c31 = r.c31 /\ [r EXCEPT !.a0 = v].a0 = v
  BY DEF Regs
<1> QED
  BY <1>3, <1>4, <1>5

LEMMA EnteredFacts ==
    ASSUME NEW e \in Enclaves, NEW a0 \in Cap, NEW a7 \in {-1, 0, 1, 2}, NEW ra \in Who
    PROVE  LET r == Entered(e, a0, a7, ra) IN
           r \in Regs /\ In(r, e, "entry") /\ r.a0 = a0 /\ r.a7 = a7 /\ r.ra = ra
<1> DEFINE b == Blank(At(e, "entry"), Unsealed(e))
<1>1. e \in Who /\ "entry" \in Label /\ Unsealed(e) \in C31
  BY NameFacts, C31Facts DEF Label
<1>2. b \in Regs /\ b.at = At(e, "entry") /\ b.c31 = Unsealed(e)
  BY <1>1, BlankFacts
<1> HIDE DEF b
<1>3. LET r == [b EXCEPT !.a0 = a0, !.a7 = a7, !.ra = ra]
      IN  r \in Regs /\ r.at = b.at /\ r.c31 = b.c31 /\ r.a0 = a0 /\ r.a7 = a7 /\ r.ra = ra
  BY <1>2 DEF Regs
<1> QED
  BY <1>2, <1>3 DEF Entered, In, b

(* The program goes on at a label of the enclave it is in. *)
LEMMA GotoFacts ==
    ASSUME regs \in Regs, NEW e \in Enclaves, NEW l, NEW label \in Label, In(regs, e, l)
    PROVE  LET r == Goto(label) IN
           /\ r \in Regs /\ In(r, e, label) /\ r.a0 = regs.a0 /\ r.a7 = regs.a7
           /\ r.ra = regs.ra /\ r.csp = regs.csp
<1>1. Here = e
  BY AtFacts DEF Here, In
<1>2. At(e, label) \in Who \X Label
  BY NameFacts, AtFacts
<1> QED
  BY <1>1, <1>2 DEF Goto, Regs, In

-----------------------------------------------------------------------------
(* Steps of main's enclaves.                                               *)

(* The action an enclave takes is told by its label. *)
LEMMA ActionAt ==
    ASSUME NEW e \in Enclaves, NEW l, In(regs, e, l), EnclaveStep
    PROVE  /\ Here = e
           /\ l = "entry" => EnclaveEntry
           /\ l = "init" => EnclaveInit
           /\ l = "exit" => EnclaveExit
           /\ l = "return" => EnclaveReturn
           /\ l = "read" => Read
           /\ l = "set_sensor_enclave" => SetSensorEnclave
           /\ l = "use_sensor" => UseSensorCalls \/ MorelloUseSensor
           /\ l = "enclave_invoke" => EnclaveInvoke \/ MorelloEnclaveInvoke
           /\ l = "return_entry" => EnclaveReturnEntry \/ MorelloReturnEntry
           /\ l = "resume" => UseSensorResumes \/ MorelloUseSensorResumes
<1>1. Here = e /\ \A m : Runs(m) => m = l
  BY AtFacts DEF Here, In, Runs
<1>2. /\ EnclaveEntry => Runs("entry")
      /\ EnclaveInit => Runs("init")
      /\ EnclaveExit => Runs("exit")
      /\ EnclaveReturn => Runs("return")
      /\ Read => Runs("read")
      /\ SetSensorEnclave => Runs("set_sensor_enclave")
  BY DEF EnclaveEntry, EnclaveInit, EnclaveExit, EnclaveReturn, Read, SetSensorEnclave
<1>3. /\ UseSensorCalls \/ MorelloUseSensor => Runs("use_sensor")
      /\ EnclaveInvoke \/ MorelloEnclaveInvoke => Runs("enclave_invoke")
      /\ EnclaveReturnEntry \/ MorelloReturnEntry => Runs("return_entry")
      /\ UseSensorResumes \/ MorelloUseSensorResumes => Runs("resume")
  BY DEF UseSensorCalls, MorelloUseSensor, EnclaveInvoke, MorelloEnclaveInvoke,
         EnclaveReturnEntry, MorelloReturnEntry, UseSensorResumes, MorelloUseSensorResumes
<1> QED
  BY <1>1, <1>2, <1>3 DEF EnclaveStep

(* No step of an enclave changes the trap data. *)
LEMMA StepKeepsTraps == EnclaveStep => UNCHANGED <<trap, mcause, traps, want, frames, uses>>
<1> SUFFICES ASSUME EnclaveStep PROVE UNCHANGED <<trap, mcause, traps, want, frames, uses>>
  OBVIOUS
<1>1. EnclaveEntry \/ EnclaveInit \/ EnclaveExit \/ EnclaveReturn \/ Read \/ SetSensorEnclave =>
         UNCHANGED <<trap, mcause, traps, want, frames, uses>>
  BY DEF EnclaveEntry, EnclaveInit, EnclaveExit, EnclaveReturn, Read, SetSensorEnclave
<1>2. UseSensorCalls \/ MorelloUseSensor \/ EnclaveInvoke \/ MorelloEnclaveInvoke =>
         UNCHANGED <<trap, mcause, traps, want, frames, uses>>
  BY DEF UseSensorCalls, MorelloUseSensor, EnclaveInvoke, MorelloEnclaveInvoke
<1>3. EnclaveReturnEntry \/ MorelloReturnEntry \/ UseSensorResumes \/ MorelloUseSensorResumes =>
         UNCHANGED <<trap, mcause, traps, want, frames, uses>>
  BY DEF EnclaveReturnEntry, MorelloReturnEntry, UseSensorResumes, MorelloUseSensorResumes
<1> QED
  BY <1>1, <1>2, <1>3 DEF EnclaveStep

(* Where memory and data sections do not change, only the registers count. *)
Same == UNCHANGED <<memory, data, readings, uses>>

LEMMA SameKept == Kept /\ Same /\ regs' \in Regs => Kept'
  BY DEF Kept, Same, Types, Loaded, Sensors, Attests, Accepted, Reads

LEMMA SameParts ==
    ASSUME Same
    PROVE  /\ AllRest' <=> AllRest
           /\ \A u : /\ OthersRest(u)' <=> OthersRest(u)
                     /\ InCall(u)' <=> InCall(u)
                     /\ Client(u)' <=> Client(u)
                     /\ User(u)' <=> User(u)
                     /\ Answered(u)' <=> Answered(u)
           /\ Accepted' <=> Accepted
           /\ \A c, n : Left(c, n)' <=> Left(c, n)
<1>1. OnProteus' <=> OnProteus
  BY DEF Same, OnProteus
<1>2. \A c, n : Left(c, n)' <=> Left(c, n)
  BY <1>1 DEF Left
<1>3. \A e : Rests(e)' <=> Rests(e)
  BY <1>2 DEF Rests, Same, Left, OnProteus
<1>4. (AllRest' <=> AllRest) /\ \A u : OthersRest(u)' <=> OthersRest(u)
  BY <1>3 DEF AllRest, OthersRest
<1>5. \A u : InCall(u)' <=> InCall(u)
  BY <1>4 DEF InCall, Same, Left, OnProteus
<1>6. \A u : (Client(u)' <=> Client(u)) /\ (User(u)' <=> User(u))
  BY DEF Client, User, Same
<1>7. (\A u : Answered(u)' <=> Answered(u)) /\ (Accepted' <=> Accepted)
  BY DEF Answered, Accepted, Reads, Same
<1> QED
  BY <1>2, <1>4, <1>5, <1>6, <1>7

(* The fields of a data section. *)
LEMMA DataFacts ==
    ASSUME Kept, NEW e \in Enclaves
    PROVE  /\ data[e] \in DataSection /\ data[e].csp \in (0 .. StackSlots) \cup {NoCsp}
           /\ data[e].csp \in Nat
           /\ data[e].csp # NoCsp => data[e].csp \in 0 .. StackSlots
           /\ data[e].sensor \in Sensor /\ data[e].stack \in Stack
  BY NameFacts DEF Kept, Types, DataSection, NoCsp

(* Where enclave_entry goes once the enclave is initialised. *)
LEMMA EntryFacts ==
    ASSUME Kept, NEW e \in Enclaves, In(regs, e, "entry"), EnclaveEntry, data[e].csp # NoCsp,
           regs.a7 # 0
    PROVE  /\ Same /\ regs' \in Regs
           /\ regs'.a0 = regs.a0 /\ regs'.a7 = regs.a7 /\ regs'.ra = regs.ra
           /\ regs'.csp = data[e].csp
           /\ regs.a7 = -1 => In(regs', e, "return_entry")
           /\ regs.a7 = 1 /\ Identity[e] = "user" => In(regs', e, "set_sensor_enclave")
           /\ regs.a7 = 2 /\ Identity[e] = "user" => In(regs', e, "use_sensor")
           /\ regs.a7 = 1 /\ Identity[e] = "sensor" => In(regs', e, "read")
<1> DEFINE l == CASE regs.a7 = -1 -> "return_entry"
                  [] regs.a7 = 1 /\ Identity[e] = "user" -> "set_sensor_enclave"
                  [] regs.a7 = 2 /\ Identity[e] = "user" -> "use_sensor"
                  [] regs.a7 = 1 /\ Identity[e] = "sensor" -> "read"
                  [] OTHER -> "exit"
<1>1. Here = e
  BY AtFacts DEF In, Here
<1>2. regs \in Regs /\ regs.a7 \in {-1, 0, 1, 2}
  BY DEF Kept, Types, Regs
<1>3. Same
  BY DEF EnclaveEntry, Same
<1>4. regs' = [Goto(l) EXCEPT !.csp = data[e].csp]
  BY <1>1 DEF EnclaveEntry
<1>5. /\ l \in Label
      /\ regs.a7 = -1 => l = "return_entry"
      /\ regs.a7 = 1 /\ Identity[e] = "user" => l = "set_sensor_enclave"
      /\ regs.a7 = 2 /\ Identity[e] = "user" => l = "use_sensor"
      /\ regs.a7 = 1 /\ Identity[e] = "sensor" => l = "read"
  BY DEF Label
<1> HIDE DEF l
<1> DEFINE r == Goto(l)
<1>6. /\ r \in Regs /\ In(r, e, l) /\ r.a0 = regs.a0 /\ r.a7 = regs.a7
      /\ r.ra = regs.ra /\ r.csp = regs.csp
  BY <1>2, <1>5, GotoFacts
<1>7. data[e].csp \in 0 .. StackSlots
  BY DataFacts
<1> HIDE DEF r
<1>8. LET q == [r EXCEPT !.csp = data[e].csp] IN
      /\ q \in Regs /\ q.at = r.at /\ q.c31 = r.c31 /\ q.a0 = r.a0 /\ q.a7 = r.a7
      /\ q.ra = r.ra /\ q.csp = data[e].csp
  BY <1>6, <1>7 DEF Regs
<1>9. /\ regs' \in Regs /\ regs'.at = r.at /\ regs'.c31 = r.c31 /\ regs'.a0 = r.a0
      /\ regs'.a7 = r.a7 /\ regs'.ra = r.ra /\ regs'.csp = data[e].csp
  BY <1>4, <1>8 DEF r
<1>10. In(regs', e, l)
  BY <1>6, <1>9 DEF In
<1> QED
  BY <1>3, <1>5, <1>6, <1>9, <1>10

LEMMA MainStage ==
    ASSUME NEW e \in Enclaves, Stage(regs, e)'
    PROVE  MainOK(regs)'
  BY DEF MainOK

(* enclave_init of an enclave that main loads. *)
LEMMA LoadsStep ==
    ASSUME Kept, NEW e \in Enclaves, Loads(regs, e), EnclaveStep
    PROVE  Kept' /\ MainOK(regs)'
<1>1. regs \in Regs /\ data \in [Enclaves -> DataSection]
  BY DEF Kept, Types
<1>2. CASE In(regs, e, "entry")
  <2>1. EnclaveEntry /\ Here = e
    BY <1>2, ActionAt
  <2>2. regs' = Goto("init") /\ Same
    BY <2>1 DEF EnclaveEntry, Loads, Same
  <2>3. /\ regs' \in Regs /\ In(regs', e, "init") /\ regs'.a7 = 0 /\ regs'.ra = "main"
        /\ regs'.a0 = Null
    BY <1>1, <1>2, <2>2, GotoFacts DEF Loads, Label
  <2>4. Loads(regs, e)'
    BY <2>2, <2>3, SameParts DEF Loads, Same, In
  <2> QED
    BY <2>2, <2>3, <2>4, SameKept, MainStage DEF Stage
<1>3. CASE In(regs, e, "init")
  <2>1. EnclaveInit /\ Here = e
    BY <1>3, ActionAt
  <2>2. /\ regs' = Goto("exit") /\ UNCHANGED <<memory, readings, uses>>
        /\ data' = [data EXCEPT ![e].csp = 0]
    BY <2>1 DEF EnclaveInit
  <2>3. /\ regs' \in Regs /\ In(regs', e, "exit") /\ regs'.ra = "main" /\ regs'.a0 = Null
    BY <1>1, <1>3, <2>2, GotoFacts DEF Loads, Label
  <2>4. /\ data' \in [Enclaves -> DataSection] /\ data'[e].csp = 0 /\ data'[e].sensor = data[e].sensor
        /\ \A d \in Enclaves \ {e} : data'[d] = data[d]
    BY <1>1, <2>2, NameFacts DEF DataSection
  <2>5. 0 # NoCsp
    BY NameFacts
  <2>6. AllRest'
    <3>1. Left(0, uses)'
      BY <2>2, NameFacts DEF Left, OnProteus, Kept, Types
    <3>2. ASSUME NEW d \in Enclaves PROVE Rests(d)'
      BY <2>2, <2>4, <3>1 DEF Loads, AllRest, Rests, Left, OnProteus
    <3> QED
      BY <3>2 DEF AllRest
  <2>7. ~ (Null.kind = "args")
    BY CapFacts
  <2>8. Leaves(regs, e)'
    BY <2>2, <2>3, <2>4, <2>5, <2>6, <2>7 DEF Leaves, Loads, Accepts, In
  <2>9. Kept'
    <3>1. Types'
      BY <2>2, <2>3, <2>4 DEF Kept, Types
    <3>2. Loaded'
      BY <2>2, <2>4, <2>5 DEF Kept, Loaded, Types, Memory
    <3>3. Sensors'
      <4>1. \A d \in Enclaves : data'[d].sensor = data[d].sensor
        BY <2>4
      <4> QED
        BY <2>2, <4>1 DEF Kept, Sensors, Attests
    <3> QED
      BY <2>2, <3>1, <3>2, <3>3 DEF Kept, Loads
  <2> QED
    BY <2>8, <2>9, MainStage DEF Stage
<1> QED
  BY <1>2, <1>3 DEF Loads

(* A step within a call keeps sensors, and stack pointers that are set. *)
LEMMA CallKept ==
    ASSUME Kept, regs' \in Regs, memory' \in Memory, data' \in [Enclaves -> DataSection],
           uses' \in 0 .. MaxUses, memory'.loaded = memory.loaded, memory'.ok = FALSE,
           \A d \in Enclaves : /\ data'[d].sensor = data[d].sensor
                               /\ data[d].csp # NoCsp => data'[d].csp # NoCsp
    PROVE  Kept'
<1>1. memory.loaded \subseteq Enclaves
  BY DEF Kept, Types, Memory
<1>2. Loaded'
  BY <1>1 DEF Kept, Loaded
<1>3. Sensors'
  BY DEF Kept, Sensors, Attests
<1> QED
  BY <1>2, <1>3 DEF Kept, Types

(* set_sensor_enclave. *)
LEMMA SetsStep ==
    ASSUME Kept, NEW u \in Enclaves, Sets(regs, u), EnclaveStep
    PROVE  Kept' /\ MainOK(regs)'
<1>1. regs \in Regs /\ data \in [Enclaves -> DataSection] /\ memory \in Memory
  BY DEF Kept, Types
<1>2. data[u].csp # NoCsp /\ Identity[u] = "user"
  BY DEF Kept, Loaded, Sets, Client
<1>3. CASE In(regs, u, "entry")
  <2>1. EnclaveEntry
    BY <1>3, ActionAt
  <2>2. /\ Same /\ regs' \in Regs /\ In(regs', u, "set_sensor_enclave")
        /\ regs'.a0 = regs.a0 /\ regs'.a7 = 1 /\ regs'.ra = "main"
    BY <1>2, <1>3, <2>1, EntryFacts DEF Sets
  <2>3. Sets(regs, u)'
    BY <2>2, SameParts DEF Sets, Same, In
  <2> QED
    BY <2>2, <2>3, SameKept, MainStage DEF Stage
<1>4. CASE In(regs, u, "set_sensor_enclave")
  <2>1. SetSensorEnclave /\ Here = u
    BY <1>4, ActionAt
  <2>2. UNCHANGED <<memory, readings, uses>>
    BY <2>1 DEF SetSensorEnclave
  <2> DEFINE g == Goto("exit")
  <2>3. g \in Regs /\ In(g, u, "exit") /\ g.ra = "main" /\ g.a0 = regs.a0
    BY <1>1, <1>4, GotoFacts DEF Sets, Label
  <2>4. /\ Client(u) /\ AllRest /\ memory.loading = {} /\ u \in MainCalls /\ memory.ok = FALSE
        /\ regs.a0.kind = "struct" /\ regs.a0.enc \in memory.loaded /\ regs.a0.sign \in memory.loaded
        /\ memory.loaded \subseteq Enclaves
    BY <1>1 DEF Sets, Client, Memory
  <2>5. CASE Attested(regs.a0.enc, regs.a0.sign)
    <3> DEFINE t == [enc |-> regs.a0.enc, sign |-> regs.a0.sign]
    <3>1. regs' = g /\ data' = [data EXCEPT ![u].sensor = t]
      BY <2>1, <2>5 DEF SetSensorEnclave
    <3>2. t \in Sensor /\ t.enc = regs.a0.enc /\ t.sign = regs.a0.sign
      BY <2>4 DEF Sensor
    <3> HIDE DEF g, t
    <3>3. /\ data' \in [Enclaves -> DataSection] /\ data'[u].sensor = t
          /\ \A d \in Enclaves : data'[d].csp = data[d].csp
          /\ \A d \in Enclaves \ {u} : data'[d].sensor = data[d].sensor
      BY <1>1, <3>1, <3>2 DEF DataSection
    <3>4. AllRest'
      BY <2>2, <2>4, <3>3 DEF AllRest, Rests, Left, OnProteus
    <3>5. Leaves(regs, u)'
      BY <1>2, <2>2, <2>3, <2>4, <3>1, <3>3, <3>4 DEF Leaves, In, Accepts
    <3>6. Attests(u, t)
      BY <1>2, <2>4, <2>5, <3>2 DEF Attests, Attested
    <3>7. Sensors'
      BY <2>2, <3>3, <3>6 DEF Kept, Sensors, Attests
    <3>8. Types' /\ Loaded'
      BY <2>2, <2>3, <2>4, <3>1, <3>3 DEF Kept, Types, Loaded
    <3> QED
      BY <2>2, <2>4, <3>5, <3>7, <3>8, MainStage DEF Kept, Stage
  <2>6. CASE ~ Attested(regs.a0.enc, regs.a0.sign)
    <3>1. regs' = [g EXCEPT !.a0 = Null] /\ data' = data
      BY <2>1, <2>6 DEF SetSensorEnclave
    <3> HIDE DEF g
    <3>2. regs' \in Regs /\ In(regs', u, "exit") /\ regs'.ra = "main" /\ regs'.a0 = Null
      BY <2>3, <3>1, CapFacts DEF Regs, In
    <3>3. ~ (Null.kind = "args")
      BY CapFacts
    <3>4. Same
      BY <2>2, <3>1 DEF Same
    <3>5. AllRest'
      BY <2>4, <3>4, SameParts
    <3>6. Leaves(regs, u)'
      BY <1>2, <2>4, <3>2, <3>3, <3>4, <3>5 DEF Leaves, In, Accepts, Same
    <3> QED
      BY <3>2, <3>4, <3>6, SameKept, MainStage DEF Stage
  <2> QED
    BY <2>5, <2>6
<1> QED
  BY <1>3, <1>4 DEF Sets

(* What is known of an enclave that uses the sensor. *)
LEMMA UserFacts ==
    ASSUME Kept, NEW u \in Enclaves, User(u)
    PROVE  LET s == data[u].sensor.enc IN
           /\ s \in Enclaves /\ s # u /\ Identity[s] = "sensor" /\ Identity[u] = "user"
           /\ s \in memory.loaded /\ data[s].csp # NoCsp /\ data[u].csp # NoCsp
           /\ u \in memory.loaded /\ u \in MainCalls /\ memory.loading = {} /\ memory.ok = FALSE
           /\ uses \in Nat /\ uses > 0 /\ uses <= MaxUses
           /\ (OnProteus <=> ~ OnMorello)
<1>1. Attests(u, data[u].sensor)
  BY DEF User, Kept, Sensors
<1>2. memory.loaded \subseteq Enclaves /\ memory.port \in Ports /\ uses \in 0 .. MaxUses
  BY DEF Kept, Types, Memory
<1>3. (OnProteus <=> ~ OnMorello)
  BY <1>2, NameFacts DEF OnProteus, OnMorello
<1>4. uses \in Nat /\ uses <= MaxUses
  BY <1>2, NameFacts
<1> QED
  BY <1>1, <1>2, <1>3, <1>4 DEF Attests, User, Client, Kept, Loaded

(* There is room for the call. *)
LEMMA RoomFacts ==
    ASSUME Roomy, Kept, NEW u \in Enclaves, User(u), NEW c \in Nat, Left(c, uses - 1)
    PROVE  c + 3 <= StackSlots /\ (OnMorello => c = 0)
<1>1. uses \in Nat /\ uses > 0 /\ uses <= MaxUses /\ MaxUses \in Nat /\ StackSlots \in Nat
  BY UserFacts, NameFacts
<1>2. 3 <= StackSlots /\ ("proteus" \in Ports => MaxUses + 2 <= StackSlots)
  BY <1>1 DEF Roomy
<1>3. CASE OnProteus
  <2>1. "proteus" \in Ports /\ c <= uses - 1 /\ ~ OnMorello
    BY <1>3 DEF OnProteus, OnMorello, Left, Kept, Types, Memory
  <2> QED
    BY <1>1, <1>2, <2>1
<1>4. CASE ~ OnProteus
  BY <1>1, <1>2, <1>4 DEF Left
<1> QED
  BY <1>3, <1>4

(* What a step on the section of u leaves of the other sections. *)
OnlyOf(u) ==
    /\ data' \in [Enclaves -> DataSection] /\ data'[u].sensor = data[u].sensor
    /\ \A d \in Enclaves \ {u} : data'[d].sensor = data[d].sensor /\ data'[d].csp = data[d].csp
    /\ UNCHANGED <<memory, uses>>

LEMMA OnlyOfFacts ==
    ASSUME Kept, NEW u \in Enclaves, User(u), OnlyOf(u), regs' \in Regs, data'[u].csp # NoCsp
    PROVE  /\ Kept' /\ User(u)' /\ (OnProteus' <=> OnProteus) /\ (OnMorello' <=> OnMorello)
           /\ OthersRest(u) => OthersRest(u)'
           /\ \A c, n : Left(c, n)' <=> Left(c, n)
<1>1. \A d \in Enclaves : /\ data'[d].sensor = data[d].sensor
                          /\ data[d].csp # NoCsp => data'[d].csp # NoCsp
  BY DEF OnlyOf
<1>2. memory \in Memory /\ memory.ok = FALSE /\ memory' = memory /\ uses' = uses
  BY DEF Kept, Types, User, Client, OnlyOf
<1>7. uses' \in 0 .. MaxUses
  BY <1>2 DEF Kept, Types
<1>3. Kept'
  BY <1>1, <1>2, <1>7, CallKept DEF OnlyOf
<1>4. User(u)'
  BY <1>1, <1>2 DEF User, Client
<1>5. (OnProteus' <=> OnProteus) /\ (OnMorello' <=> OnMorello)
      /\ \A c, n : Left(c, n)' <=> Left(c, n)
  BY <1>2 DEF OnProteus, OnMorello, Left
<1>6. ASSUME OthersRest(u) PROVE OthersRest(u)'
  <2>1. ASSUME NEW e \in Enclaves \ {u} PROVE Rests(e)'
    BY <1>2, <1>6 DEF OthersRest, Rests, Left, OnProteus, OnlyOf
  <2> QED
    BY <2>1 DEF OthersRest
<1> QED
  BY <1>3, <1>4, <1>5, <1>6

(* The buffer that is passed to the sensor. *)
LEMMA BufferFacts ==
    ASSUME Kept, NEW u \in Enclaves, User(u), NEW l, In(regs, u, l), NEW c \in 0 .. StackSlots,
           regs' = [Goto("enclave_invoke") EXCEPT
                       !.csp = c,
                       !.a0 = [Null EXCEPT !.kind = "buffer", !.enc = data[u].sensor.enc]]
    PROVE  regs' \in Regs /\ In(regs', u, "enclave_invoke") /\ regs'.csp = c /\ regs'.ra = regs.ra
<1> DEFINE g == Goto("enclave_invoke")
           b == [Null EXCEPT !.kind = "buffer", !.enc = data[u].sensor.enc]
<1>1. g \in Regs /\ In(g, u, "enclave_invoke") /\ g.ra = regs.ra
  BY GotoFacts DEF Kept, Types, Label
<1>2. b \in Cap
  <2>1. "buffer" \in Kind /\ data[u].sensor.enc \in Who
    BY UserFacts, NameFacts DEF Kind
  <2> QED
    BY <2>1, CapFacts
<1>3. regs' = [g EXCEPT !.csp = c, !.a0 = b]
  OBVIOUS
<1> HIDE DEF g, b
<1> QED
  BY <1>1, <1>2, <1>3 DEF Regs, In

(* use_sensor up to the call. *)
LEMMA BeginsStep ==
    ASSUME Roomy, Kept, NEW u \in Enclaves, Begins(regs, u), EnclaveStep
    PROVE  Kept' /\ MainOK(regs)'
<1>1. regs \in Regs /\ data \in [Enclaves -> DataSection] /\ memory \in Memory
  BY DEF Kept, Types
<1>2. User(u) /\ data[u].csp # NoCsp /\ Identity[u] = "user"
  BY UserFacts DEF Begins
<1>3. CASE In(regs, u, "entry")
  <2>1. EnclaveEntry
    BY <1>3, ActionAt
  <2>2. /\ Same /\ regs' \in Regs /\ In(regs', u, "use_sensor")
        /\ regs'.a7 = 2 /\ regs'.ra = "main" /\ regs'.csp = data[u].csp
    BY <1>2, <1>3, <2>1, EntryFacts DEF Begins
  <2>3. Begins(regs, u)'
    <3>1. User(u)' /\ OthersRest(u)' /\ Left(data[u].csp, uses - 1)'
      BY <1>2, <2>2, SameParts DEF Begins, Left, Same, OnProteus
    <3> QED
      BY <2>2, <3>1 DEF Begins, Same, In
  <2> QED
    BY <2>2, <2>3, SameKept, MainStage DEF Stage
<1>4. CASE In(regs, u, "use_sensor") /\ regs.csp = data[u].csp
  <2> DEFINE c == data[u].csp
             d == data[u]
  <2>1. /\ c \in Nat /\ c + 3 <= StackSlots /\ regs.csp = c /\ regs.ra = "main"
        /\ OthersRest(u) /\ Left(c, uses - 1)
    BY <1>2, <1>4, DataFacts, RoomFacts DEF Begins
  <2>2. /\ regs.a0 \in Cap /\ memory.nonce \in Nonces \cup {0} /\ d \in DataSection
        /\ StackSlots \in Nat /\ Caller("main") \in Cap
    BY <1>1, NameFacts, CapFacts DEF Regs, Memory, Who
  <2>3. CASE OnProteus
    <3> DEFINE sp == c + 1
    <3>1. UseSensorCalls /\ Here = u
      BY <1>4, <2>3, ActionAt DEF MorelloUseSensor, OnMorello, OnProteus
    <3>2. /\ data' = [data EXCEPT ![u].stack[sp] = regs.a0, ![u].buffer.nonce = memory.nonce]
          /\ regs' = [Goto("enclave_invoke") EXCEPT
                         !.csp = sp,
                         !.a0 = [Null EXCEPT !.kind = "buffer", !.enc = data[u].sensor.enc]]
          /\ UNCHANGED <<memory, uses>>
      BY <2>1, <3>1 DEF UseSensorCalls
    <3>3. sp \in 0 .. StackSlots /\ sp = data[u].csp + 1 /\ sp \in 1 .. StackSlots + 3
      BY <2>1, <2>2
    <3> HIDE DEF sp, c, d
    <3>4. /\ regs' \in Regs /\ In(regs', u, "enclave_invoke") /\ regs'.csp = sp
          /\ regs'.ra = "main"
      BY <1>2, <1>4, <2>1, <3>2, <3>3, BufferFacts
    <3>5. /\ data' \in [Enclaves -> DataSection] /\ data'[u].csp = data[u].csp
          /\ data'[u].sensor = data[u].sensor
          /\ data'[u].buffer.nonce = memory.nonce
          /\ \A e \in Enclaves \ {u} : data'[e] = data[e]
      BY <1>1, <2>2, <3>2, <3>3 DEF DataSection, Buffer, Stack
    <3>6. OnlyOf(u)
      BY <3>2, <3>5 DEF OnlyOf
    <3>7. /\ Kept' /\ User(u)' /\ OthersRest(u)' /\ OnProteus' /\ ~ OnMorello'
      BY <1>2, <2>1, <2>3, <3>4, <3>5, <3>6, OnlyOfFacts DEF OnMorello, OnProteus
    <3>8. Left(data[u].csp, uses - 1)'
      BY <2>1, <3>2, <3>5 DEF Left, OnProteus, c
    <3>9. Calls(regs, u)'
      BY <3>2, <3>3, <3>4, <3>5, <3>7, <3>8 DEF Calls, In
    <3> QED
      BY <3>7, <3>9, MainStage DEF Stage
  <2>4. CASE ~ OnProteus
    <3> DEFINE sp == c + 2
    <3>1. MorelloUseSensor /\ Here = u
      BY <1>4, <2>4, ActionAt DEF UseSensorCalls
    <3>2. /\ data' = [data EXCEPT ![u].stack[sp - 1] = regs.a0,
                                  ![u].stack[sp] = Caller("main"),
                                  ![u].buffer.nonce = memory.nonce]
          /\ regs' = [Goto("enclave_invoke") EXCEPT
                         !.csp = sp,
                         !.a0 = [Null EXCEPT !.kind = "buffer", !.enc = data[u].sensor.enc]]
          /\ UNCHANGED <<memory, uses>>
      BY <2>1, <3>1 DEF MorelloUseSensor
    <3>3. /\ sp \in 0 .. StackSlots /\ sp = data[u].csp + 2 /\ sp \in 1 .. StackSlots + 3
          /\ sp - 1 \in 1 .. StackSlots + 3
      BY <2>1, <2>2
    <3> HIDE DEF sp, c, d
    <3>4. /\ regs' \in Regs /\ In(regs', u, "enclave_invoke") /\ regs'.csp = sp
      BY <1>2, <1>4, <3>2, <3>3, BufferFacts
    <3> DEFINE k == [data[u].stack EXCEPT ![sp - 1] = regs.a0]
    <3>5. k \in Stack /\ [k EXCEPT ![sp] = Caller("main")] \in Stack
          /\ [k EXCEPT ![sp] = Caller("main")][sp] = Caller("main")
      BY <1>1, <2>2, <3>3 DEF DataSection, Stack
    <3> DEFINE m == [k EXCEPT ![sp] = Caller("main")]
    <3>6. data' = [data EXCEPT ![u].stack = m, ![u].buffer.nonce = memory.nonce]
      BY <1>1, <3>2 DEF DataSection
    <3>7. m \in Stack /\ m[sp] = Caller("main")
      BY <3>5
    <3> HIDE DEF k, m
    <3>8. /\ data' \in [Enclaves -> DataSection] /\ data'[u].csp = data[u].csp
          /\ data'[u].sensor = data[u].sensor /\ data'[u].stack = m
          /\ data'[u].buffer.nonce = memory.nonce
          /\ \A e \in Enclaves \ {u} : data'[e] = data[e]
      BY <1>1, <2>2, <3>6, <3>7 DEF DataSection, Buffer
    <3>9. OnlyOf(u)
      BY <3>2, <3>8 DEF OnlyOf
    <3>10. /\ Kept' /\ User(u)' /\ OthersRest(u)' /\ ~ OnProteus'
      BY <1>2, <2>1, <2>4, <3>4, <3>8, <3>9, OnlyOfFacts
    <3>11. Left(data[u].csp, uses - 1)'
      BY <2>1, <3>2, <3>8 DEF Left, OnProteus, c
    <3>12. Calls(regs, u)'
      BY <3>2, <3>3, <3>4, <3>7, <3>8, <3>10, <3>11 DEF Calls, In
    <3> QED
      BY <3>10, <3>12, MainStage DEF Stage
  <2> QED
    BY <2>3, <2>4
<1> QED
  BY <1>3, <1>4 DEF Begins

(* enclave_invoke: three slots are in use, and the sensor is entered. *)
LEMMA InvokeFacts ==
    ASSUME Roomy, Kept, NEW u \in Enclaves, Calls(regs, u), NEW m \in Stack, NEW c \in Nat,
           c = data[u].csp, data' = [data EXCEPT ![u].csp = c + 3, ![u].stack = m],
           m[c + 3] = GoOn, m[c + 2] = Caller("main"), UNCHANGED <<memory, uses>>,
           regs' = Entered(data[u].sensor.enc, regs.a0, 1, u)
    PROVE  Kept' /\ MainOK(regs)'
<1>1. regs \in Regs /\ data \in [Enclaves -> DataSection] /\ regs.a0 \in Cap /\ u \in Who
  BY NameFacts DEF Kept, Types, Regs
<1>2. User(u) /\ OthersRest(u) /\ Left(c, uses - 1)
  BY DEF Calls
<1>3. data[u].sensor.enc \in Enclaves
  BY <1>2, UserFacts
<1>4. /\ regs' \in Regs /\ In(regs', data[u].sensor.enc, "entry") /\ regs'.a7 = 1 /\ regs'.ra = u
  BY <1>1, <1>3, EnteredFacts
<1>5. c + 3 <= StackSlots /\ c + 3 \in (0 .. StackSlots) \cup {NoCsp} /\ c + 3 # NoCsp
      /\ (c + 3) - 3 = c /\ (c + 3) - 1 = c + 2 /\ c + 3 >= 3
  BY <1>2, RoomFacts, NameFacts
<1> DEFINE sp == c + 3
<1>6. /\ sp \in (0 .. StackSlots) \cup {NoCsp} /\ sp # NoCsp /\ sp - 3 = c
      /\ m[sp] = GoOn /\ m[sp - 1] = Caller("main") /\ sp >= 3
      /\ data' = [data EXCEPT ![u].csp = sp, ![u].stack = m]
  BY <1>5
<1> HIDE DEF sp
<1>7. /\ data' \in [Enclaves -> DataSection] /\ data'[u].csp = sp
      /\ data'[u].sensor = data[u].sensor /\ data'[u].stack = m
      /\ data'[u].buffer = data[u].buffer
      /\ \A e \in Enclaves \ {u} : data'[e] = data[e]
  <2> DEFINE q == [data[u] EXCEPT !.csp = sp, !.stack = m]
  <2>1. q \in DataSection
    <3>1. sp \in (0 .. StackSlots) \cup {NoCsp}
      BY <1>6
    <3>2. data[u] \in DataSection
      BY <1>1
    <3> QED
      BY <3>1, <3>2 DEF DataSection
  <2>2. /\ q.csp = sp /\ q.sensor = data[u].sensor /\ q.stack = m
        /\ q.buffer = data[u].buffer
    BY <1>1 DEF DataSection
  <2>3. data' = [data EXCEPT ![u] = q]
    BY <1>6
  <2> HIDE DEF q
  <2> QED
    BY <1>1, <2>1, <2>2, <2>3
<1>8. OnlyOf(u)
  BY <1>7 DEF OnlyOf
<1>9. Kept' /\ User(u)' /\ OthersRest(u)'
  BY <1>2, <1>4, <1>6, <1>7, <1>8, OnlyOfFacts
<1>10. Left(data[u].csp - 3, uses - 1)'
  BY <1>2, <1>6, <1>7 DEF Left, OnProteus
<1>11. InCall(u)'
  BY <1>6, <1>7, <1>9, <1>10 DEF InCall
<1>12. (data[u].buffer.nonce = memory.nonce)'
  BY <1>7 DEF Calls
<1>13. Asks(regs, u)'
  BY <1>4, <1>7, <1>9, <1>11, <1>12 DEF Asks, In
<1> QED
  BY <1>9, <1>13, MainStage DEF Stage

LEMMA CallsStep ==
    ASSUME Roomy, Kept, NEW u \in Enclaves, Calls(regs, u), EnclaveStep
    PROVE  Kept' /\ MainOK(regs)'
<1> DEFINE c == data[u].csp
<1>1. /\ data \in [Enclaves -> DataSection] /\ data[u].stack \in Stack /\ c \in Nat
      /\ GoOn \in Cap /\ Caller("main") \in Cap /\ StackSlots \in Nat
  BY DataFacts, NameFacts, CapFacts DEF Kept, Types, Who
<1>2. User(u) /\ Left(c, uses - 1) /\ In(regs, u, "enclave_invoke")
  BY DEF Calls
<1>3. c + 3 <= StackSlots /\ c + 3 \in 1 .. StackSlots + 3 /\ c + 2 \in 1 .. StackSlots + 3
  BY <1>1, <1>2, RoomFacts
<1>4. CASE OnProteus
  <2>1. EnclaveInvoke /\ Here = u
    BY <1>2, <1>4, ActionAt DEF MorelloEnclaveInvoke, OnMorello, OnProteus
  <2>2. regs.csp = c + 1 /\ regs.ra = "main"
    BY <1>4 DEF Calls
  <2>3. regs.csp + 2 = c + 3 /\ (c + 3) - 1 = c + 2
    BY <1>1, <2>2
  <2>4. /\ data' = [data EXCEPT ![u].csp = c + 3, ![u].stack[c + 2] = Caller("main"),
                                ![u].stack[c + 3] = GoOn]
        /\ regs' = Entered(data[u].sensor.enc, regs.a0, 1, u) /\ UNCHANGED <<memory, uses>>
    BY <2>1, <2>2, <2>3 DEF EnclaveInvoke
  <2> HIDE DEF c
  <2> DEFINE k == [data[u].stack EXCEPT ![c + 2] = Caller("main")]
             m == [k EXCEPT ![c + 3] = GoOn]
  <2>5. k \in Stack /\ m \in Stack /\ m[c + 3] = GoOn /\ m[c + 2] = Caller("main")
    BY <1>1, <1>3 DEF Stack
  <2>6. data' = [data EXCEPT ![u].csp = c + 3, ![u].stack = m]
    BY <1>1, <2>4 DEF DataSection
  <2> HIDE DEF k, m
  <2> QED
    BY <1>1, <2>4, <2>5, <2>6, InvokeFacts DEF c
<1>5. CASE ~ OnProteus
  <2>1. MorelloEnclaveInvoke /\ Here = u /\ OnMorello
    BY <1>2, <1>5, ActionAt DEF EnclaveInvoke, MorelloEnclaveInvoke
  <2>2. regs.csp = c + 2 /\ data[u].stack[c + 2] = Caller("main")
    BY <2>1 DEF Calls
  <2>3. regs.csp + 1 = c + 3 /\ (c + 3) - 1 = c + 2
    BY <1>1, <2>2
  <2>4. /\ data' = [data EXCEPT ![u].csp = c + 3, ![u].stack[c + 3] = GoOn]
        /\ regs' = Entered(data[u].sensor.enc, regs.a0, 1, u) /\ UNCHANGED <<memory, uses>>
    BY <2>1, <2>3 DEF MorelloEnclaveInvoke
  <2> HIDE DEF c
  <2> DEFINE m == [data[u].stack EXCEPT ![c + 3] = GoOn]
  <2>5. m \in Stack /\ m[c + 3] = GoOn /\ m[c + 2] = Caller("main")
    BY <1>1, <1>3, <2>2 DEF Stack
  <2>6. data' = [data EXCEPT ![u].csp = c + 3, ![u].stack = m]
    BY <1>1, <2>4 DEF DataSection
  <2> HIDE DEF m
  <2> QED
    BY <1>1, <2>4, <2>5, <2>6, InvokeFacts DEF c
<1> QED
  BY <1>4, <1>5

(* The sensor: read. *)
LEMMA AsksStep ==
    ASSUME Kept, NEW u \in Enclaves, Asks(regs, u), EnclaveStep
    PROVE  Kept' /\ MainOK(regs)'
<1> DEFINE s == data[u].sensor.enc
<1>1. regs \in Regs /\ data \in [Enclaves -> DataSection] /\ memory \in Memory
  BY DEF Kept, Types
<1>2. /\ User(u) /\ s \in Enclaves /\ s # u /\ Identity[s] = "sensor" /\ data[s].csp # NoCsp
      /\ InCall(u) /\ regs.a7 = 1 /\ regs.ra = u /\ data[u].buffer.nonce = memory.nonce
  BY UserFacts DEF Asks
<1>3. CASE In(regs, s, "entry")
  <2>1. EnclaveEntry
    BY <1>2, <1>3, ActionAt
  <2>2. Same /\ regs' \in Regs /\ In(regs', s, "read") /\ regs'.a7 = 1 /\ regs'.ra = u
    BY <1>2, <1>3, <2>1, EntryFacts
  <2>3. User(u)' /\ InCall(u)'
    BY <1>2, <2>2, SameParts
  <2>4. Asks(regs, u)'
    BY <1>2, <2>2, <2>3 DEF Asks, In, Same
  <2> QED
    BY <2>2, <2>4, SameKept, MainStage DEF Stage
<1>4. CASE In(regs, s, "read")
  <2>1. Read /\ Here = s
    BY <1>2, <1>4, ActionAt
  <2> DEFINE a == [Null EXCEPT !.kind = "buffer", !.enc = u]
             v == [Null EXCEPT !.kind = "answer", !.sign = s]
             g == Goto("return")
  <2>2. a \in Cap /\ v \in Cap
    <3>1. "buffer" \in Kind /\ "answer" \in Kind /\ u \in Who /\ s \in Who
      BY <1>2, NameFacts DEF Kind
    <3> QED
      BY <3>1, CapFacts
  <2>3. /\ data' = [data EXCEPT ![u].buffer.result = Reading, ![s].answer = a]
        /\ readings' = readings \cup {[by |-> s, to |-> u]}
        /\ regs' = [g EXCEPT !.a0 = v] /\ UNCHANGED <<memory, uses>>
    BY <1>2, <2>1 DEF Read
  <2>4. g \in Regs /\ In(g, s, "return") /\ g.ra = u
    BY <1>1, <1>2, <1>4, GotoFacts DEF Label
  <2> HIDE DEF a, v, g
  <2>5. regs' \in Regs /\ In(regs', s, "return") /\ regs'.ra = u
    BY <2>2, <2>3, <2>4 DEF Regs, In
  <2>6. Reading \in Nat
    BY DEF Reading
  <2> HIDE DEF s
  <2>7. /\ data' \in [Enclaves -> DataSection]
        /\ \A e \in Enclaves : /\ data'[e].csp = data[e].csp /\ data'[e].sensor = data[e].sensor
                               /\ data'[e].stack = data[e].stack
        /\ data'[u].buffer.result = Reading /\ data'[u].buffer.nonce = data[u].buffer.nonce
    <3> DEFINE q == [data[u] EXCEPT !.buffer.result = Reading]
               d == [data EXCEPT ![u] = q]
               p == [d[s] EXCEPT !.answer = a]
    <3>1. /\ q \in DataSection /\ q.csp = data[u].csp /\ q.sensor = data[u].sensor
          /\ q.stack = data[u].stack
          /\ q.buffer.result = Reading /\ q.buffer.nonce = data[u].buffer.nonce
      BY <1>1, <2>6 DEF DataSection, Buffer
    <3>2. data' = [d EXCEPT ![s] = p]
      BY <2>3
    <3> HIDE DEF q, p
    <3>3. d \in [Enclaves -> DataSection] /\ d[u] = q
          /\ \A e \in Enclaves \ {u} : d[e] = data[e]
      BY <1>1, <3>1
    <3> HIDE DEF d
    <3>4. /\ p \in DataSection /\ p.csp = d[s].csp /\ p.sensor = d[s].sensor
          /\ p.stack = d[s].stack
      BY <1>2, <2>2, <3>3 DEF DataSection, p
    <3>5. /\ data' \in [Enclaves -> DataSection] /\ data'[s] = p
          /\ \A e \in Enclaves \ {s} : data'[e] = d[e]
      BY <1>2, <3>2, <3>3, <3>4
    <3> QED
      BY <1>2, <3>1, <3>3, <3>4, <3>5
  <2>8. OnlyOf(u)
    BY <2>3, <2>7 DEF OnlyOf
  <2>9. data[u].csp # NoCsp /\ OthersRest(u)
    BY <1>2 DEF InCall
  <2>10. Kept' /\ User(u)' /\ OthersRest(u)'
    BY <1>2, <2>5, <2>7, <2>8, <2>9, OnlyOfFacts
  <2>11. InCall(u)'
    BY <1>2, <2>3, <2>7, <2>10 DEF InCall, Left, OnProteus
  <2>12. Answered(u)'
    BY <1>2, <2>3, <2>7 DEF Answered, Reads, s
  <2>13. Answers(regs, u)'
    BY <2>5, <2>7, <2>10, <2>11, <2>12 DEF Answers, In, s
  <2> QED
    BY <2>10, <2>13, MainStage DEF Stage
<1> QED
  BY <1>3, <1>4 DEF Asks

(* The sensor returns to the user. *)
LEMMA AnswersStep ==
    ASSUME Kept, NEW u \in Enclaves, Answers(regs, u), EnclaveStep
    PROVE  Kept' /\ MainOK(regs)'
<1>1. /\ User(u) /\ InCall(u) /\ Answered(u) /\ data[u].sensor.enc \in Enclaves /\ regs.ra = u
      /\ In(regs, data[u].sensor.enc, "return") /\ regs.a0 \in Cap /\ "none" \in Who
  BY UserFacts DEF Answers, Kept, Types, Regs, Who
<1>2. EnclaveReturn
  BY <1>1, ActionAt
<1>3. Same /\ regs' = Entered(u, regs.a0, -1, "none")
  BY <1>1, <1>2 DEF EnclaveReturn, Same
<1>4. regs' \in Regs /\ In(regs', u, "entry") /\ regs'.a7 = -1
  BY <1>1, <1>3, EnteredFacts
<1>5. User(u)' /\ InCall(u)' /\ Answered(u)'
  BY <1>1, <1>3, SameParts
<1>6. Returns(regs, u)'
  BY <1>4, <1>5 DEF Returns, In
<1> QED
  BY <1>3, <1>4, <1>6, SameKept, MainStage DEF Stage

(* What a step that only moves the stack pointer of u leaves alone. *)
LEMMA CspFacts ==
    ASSUME Kept, NEW u \in Enclaves, NEW c \in 0 .. StackSlots,
           data' = [data EXCEPT ![u].csp = c]
    PROVE  /\ data' \in [Enclaves -> DataSection] /\ data'[u].csp = c
           /\ \A e \in Enclaves : /\ data'[e].sensor = data[e].sensor
                                  /\ data'[e].buffer = data[e].buffer
           /\ \A e \in Enclaves \ {u} : data'[e] = data[e]
<1> DEFINE q == [data[u] EXCEPT !.csp = c]
<1>1. data \in [Enclaves -> DataSection] /\ data[u] \in DataSection
  BY DEF Kept, Types
<1>2. /\ q \in DataSection /\ q.csp = c /\ q.sensor = data[u].sensor
      /\ q.buffer = data[u].buffer
  <2>1. c \in (0 .. StackSlots) \cup {NoCsp}
    OBVIOUS
  <2> QED
    BY <1>1, <2>1 DEF DataSection
<1>3. data' = [data EXCEPT ![u] = q]
  OBVIOUS
<1> HIDE DEF q
<1>4. /\ data' \in [Enclaves -> DataSection] /\ data'[u] = q
      /\ \A e \in Enclaves \ {u} : data'[e] = data[e]
  BY <1>1, <1>2, <1>3
<1> QED
  BY <1>2, <1>4

(* The stack of u is at rest once the slots of the call are popped. *)
LEMMA RestFacts ==
    ASSUME Kept, NEW u \in Enclaves, User(u), OthersRest(u), NEW c \in Nat,
           data' = [data EXCEPT ![u].csp = c], c \in 0 .. StackSlots, Left(c, uses),
           UNCHANGED <<memory, uses>>, regs' \in Regs
    PROVE  Kept' /\ User(u)' /\ AllRest'
<1>1. /\ data' \in [Enclaves -> DataSection] /\ data'[u].csp = c
      /\ \A e \in Enclaves : data'[e].sensor = data[e].sensor
      /\ \A e \in Enclaves \ {u} : data'[e] = data[e]
  BY CspFacts
<1>2. OnlyOf(u) /\ c # NoCsp
  BY <1>1, NameFacts DEF OnlyOf
<1>3. Kept' /\ User(u)' /\ OthersRest(u)'
  BY <1>1, <1>2, OnlyOfFacts
<1>4. Rests(u)'
  BY <1>1 DEF Rests, Left, OnProteus
<1> QED
  BY <1>3, <1>4 DEF OthersRest, AllRest

(* enclave_return_entry. *)
LEMMA ReturnsStep ==
    ASSUME Kept, NEW u \in Enclaves, Returns(regs, u), EnclaveStep
    PROVE  Kept' /\ MainOK(regs)'
<1> DEFINE c == data[u].csp
<1>1. /\ User(u) /\ InCall(u) /\ Answered(u) /\ data[u].csp # NoCsp /\ regs.a7 = -1
      /\ c \in 0 .. StackSlots /\ c >= 3 /\ Left(c - 3, uses - 1) /\ OthersRest(u)
      /\ data[u].stack[c] = GoOn /\ data[u].stack[c - 1] = Caller("main")
      /\ uses \in Nat /\ StackSlots \in Nat /\ (OnProteus <=> ~ OnMorello)
  BY UserFacts, DataFacts, NameFacts DEF Returns, InCall
<1>2. CASE In(regs, u, "entry")
  <2>1. EnclaveEntry
    BY <1>2, ActionAt
  <2>2. /\ Same /\ regs' \in Regs /\ In(regs', u, "return_entry") /\ regs'.a7 = -1
        /\ regs'.csp = data[u].csp
    BY <1>1, <1>2, <2>1, EntryFacts
  <2>3. User(u)' /\ InCall(u)' /\ Answered(u)'
    BY <1>1, <2>2, SameParts
  <2>4. Returns(regs, u)'
    BY <2>2, <2>3 DEF Returns, In, Same
  <2> QED
    BY <2>2, <2>4, SameKept, MainStage DEF Stage
<1>3. CASE In(regs, u, "return_entry") /\ regs.csp = c
  <2> DEFINE g == Goto("resume")
  <2>1. g \in Regs /\ In(g, u, "resume") /\ g.csp = regs.csp
    BY <1>3, GotoFacts DEF Kept, Types, Label
  <2>2. "resume" = data[u].stack[c].kind /\ "main" = data[u].stack[c - 1].enc /\ "main" \in Who
    BY <1>1, CapFacts DEF Who
  <2>3. CASE OnProteus
    <3>1. EnclaveReturnEntry /\ Here = u
      BY <1>1, <1>3, <2>3, ActionAt DEF MorelloReturnEntry
    <3>2. /\ data' = [data EXCEPT ![u].csp = c - 2]
          /\ regs' = [g EXCEPT !.ra = "main", !.csp = c - 2]
          /\ UNCHANGED <<memory, uses, readings>>
      BY <1>3, <2>2, <3>1 DEF EnclaveReturnEntry, Popped, ReturnTo
    <3>3. c - 2 \in 0 .. StackSlots /\ c - 2 \in Nat /\ Left(c - 2, uses)
      BY <1>1, <2>3 DEF Left
    <3> HIDE DEF c, g
    <3>9. c - 2 > 0
      BY <1>1 DEF c
    <3>4. regs' \in Regs /\ In(regs', u, "resume") /\ regs'.ra = "main" /\ regs'.csp = c - 2
      BY <2>1, <2>2, <3>2, <3>3 DEF Regs, In
    <3>5. Kept' /\ User(u)' /\ AllRest'
      BY <1>1, <3>2, <3>3, <3>4, RestFacts
    <3>6. Answered(u)'
      BY <1>1, <3>2, <3>3, CspFacts DEF Answered, Reads
    <3>7. OnProteus' /\ ~ OnMorello'
      BY <2>3, <3>2 DEF OnProteus, OnMorello
    <3>8. Resumes(regs, u)'
      BY <3>4, <3>5, <3>6, <3>7, <3>9 DEF Resumes, In
    <3> QED
      BY <3>5, <3>8, MainStage DEF Stage
  <2>4. CASE ~ OnProteus
    <3>1. MorelloReturnEntry /\ Here = u
      BY <1>1, <1>3, <2>4, ActionAt DEF EnclaveReturnEntry
    <3>2. Same /\ regs' = [g EXCEPT !.csp = @ - 1]
      BY <1>3, <2>2, <3>1 DEF MorelloReturnEntry, ReturnTo, Same
    <3>3. c - 1 \in 0 .. StackSlots
      BY <1>1
    <3> HIDE DEF g
    <3>4. regs' = [g EXCEPT !.csp = c - 1]
      BY <1>3, <2>1, <3>2
    <3> HIDE DEF c
    <3>5. regs' \in Regs /\ In(regs', u, "resume") /\ regs'.csp = c - 1
      BY <2>1, <3>3, <3>4 DEF Regs, In
    <3>6. User(u)' /\ InCall(u)' /\ Answered(u)'
      BY <1>1, <3>2, SameParts
    <3>7. ~ OnProteus'
      BY <2>4, <3>2 DEF OnProteus, Same
    <3>8. regs'.csp = data'[u].csp - 1
      BY <3>2, <3>5 DEF Same, c
    <3>9. Resumes(regs, u)'
      BY <3>5, <3>6, <3>7, <3>8 DEF Resumes, In
    <3> QED
      BY <3>2, <3>5, <3>9, SameKept, MainStage DEF Stage
  <2> QED
    BY <2>3, <2>4
<1> QED
  BY <1>2, <1>3 DEF Returns

(* The end of use_sensor: the nonces agree, and the result is the reading. *)
LEMMA ProcessedFacts ==
    ASSUME Kept, NEW u \in Enclaves, User(u), Answered(u), In(regs, u, "resume"),
           NEW args \in Cap, Processed(args, "main"), uses' = uses, readings' = readings,
           data' \in [Enclaves -> DataSection],
           \A d \in Enclaves : /\ data'[d].sensor = data[d].sensor
                               /\ data'[d].buffer = data[d].buffer
                               /\ data[d].csp # NoCsp => data'[d].csp # NoCsp,
           AllRest'
    PROVE  Kept' /\ MainOK(regs)'
<1> DEFINE g == Goto("exit")
           v == [args EXCEPT !.sign = u]
<1>1. Here = u /\ regs \in Regs /\ memory \in Memory
  BY AtFacts DEF Here, In, Kept, Types
<1>2. data[u].buffer.nonce = memory.nonce /\ data[u].buffer.result = Reading
  BY DEF Answered, Reads
<1>3. regs' = [g EXCEPT !.ra = "main", !.a0 = v] /\ memory' = [memory EXCEPT !.result = 2 * Reading]
  BY <1>1, <1>2 DEF Processed
<1>4. g \in Regs /\ In(g, u, "exit")
  BY <1>1, GotoFacts DEF Label
<1>5. v \in Cap /\ "main" \in Who
  BY NameFacts, CapFacts DEF Who
<1> HIDE DEF g, v
<1>6. regs' \in Regs /\ In(regs', u, "exit") /\ regs'.ra = "main"
  BY <1>3, <1>4, <1>5 DEF Regs, In
<1>7. /\ memory' \in Memory /\ memory'.result = 2 * Reading /\ memory'.loaded = memory.loaded
      /\ memory'.loading = memory.loading /\ memory'.ok = memory.ok
      /\ memory'.nonce = memory.nonce
  <2>1. 2 * Reading \in Nat
    BY DEF Reading
  <2> HIDE DEF Reading
  <2> QED
    BY <1>1, <1>3, <2>1 DEF Memory
<1>8. memory.ok = FALSE /\ memory.loading = {} /\ u \in MainCalls /\ data[u].csp # NoCsp
  BY UserFacts
<1>9. Kept'
  <2>1. uses' \in 0 .. MaxUses
    BY DEF Kept, Types
  <2> QED
    BY <1>6, <1>7, <1>8, <2>1, CallKept
<1>10. Accepted'
  <2>1. Reads(u)'
    BY <1>7 DEF Answered, Reads
  <2> QED
    BY <1>7, <2>1 DEF Accepted
<1>11. Leaves(regs, u)'
  BY <1>6, <1>7, <1>8, <1>10 DEF Leaves, In, Accepts
<1> QED
  BY <1>9, <1>11, MainStage DEF Stage

LEMMA ResumesStep ==
    ASSUME Kept, NEW u \in Enclaves, Resumes(regs, u), EnclaveStep
    PROVE  Kept' /\ MainOK(regs)'
<1>1. /\ User(u) /\ Answered(u) /\ In(regs, u, "resume") /\ uses \in Nat
      /\ (OnProteus <=> ~ OnMorello) /\ data[u].stack \in Stack
      /\ data \in [Enclaves -> DataSection] /\ regs.csp \in 0 .. StackSlots /\ StackSlots \in Nat
  BY UserFacts, DataFacts, NameFacts DEF Resumes, Kept, Types, Regs
<1>2. CASE OnProteus
  <2>1. UseSensorResumes /\ Here = u
    BY <1>1, <1>2, ActionAt DEF MorelloUseSensorResumes
  <2>2. AllRest /\ regs.ra = "main" /\ regs.csp > 0
    BY <1>2 DEF Resumes
  <2>3. /\ Processed(data[u].stack[regs.csp], "main")
        /\ UNCHANGED <<data, readings, uses>>
    BY <2>1, <2>2 DEF UseSensorResumes
  <2>4. data[u].stack[regs.csp] \in Cap
    <3>1. regs.csp \in 1 .. StackSlots + 3
      BY <1>1, <2>2
    <3> QED
      BY <1>1, <3>1 DEF Stack
  <2>5. memory'.port = memory.port
    <3>1. memory' = memory \/ \E x : memory' = [memory EXCEPT !.result = x]
      BY <2>3 DEF Processed
    <3> QED
      BY <3>1 DEF Kept, Types, Memory
  <2>6. AllRest'
    BY <2>2, <2>3, <2>5 DEF AllRest, Rests, Left, OnProteus
  <2> QED
    BY <1>1, <2>3, <2>4, <2>6, ProcessedFacts
<1>3. CASE ~ OnProteus
  <2> DEFINE c == data[u].csp
             a == data[u].stack[c - 2]
  <2>1. MorelloUseSensorResumes /\ Here = u
    BY <1>1, <1>3, ActionAt DEF UseSensorResumes
  <2>2. /\ c \in 0 .. StackSlots /\ c >= 3 /\ Left(c - 3, uses - 1) /\ OthersRest(u)
        /\ data[u].stack[c - 1] = Caller("main") /\ regs.csp = c - 1
    BY <1>1, <1>3, DataFacts DEF Resumes, InCall
  <2>3. (c - 1) - 1 = c - 2 /\ (c - 1) - 2 = c - 3
    BY <1>1, <2>2
  <2>4. Caller("main").enc = "main"
    BY CapFacts DEF Who
  <2>5. /\ data' = [data EXCEPT ![u].csp = c - 3] /\ Processed(a, "main")
        /\ UNCHANGED <<readings, uses>>
    BY <2>1, <2>2, <2>3, <2>4 DEF MorelloUseSensorResumes
  <2>6. a \in Cap
    <3>1. c - 2 \in 1 .. StackSlots + 3
      BY <1>1, <2>2
    <3> QED
      BY <1>1, <3>1 DEF Stack
  <2>7. c - 3 \in 0 .. StackSlots /\ c - 3 # NoCsp /\ c - 3 <= 0
    BY <1>1, <1>3, <2>2, NameFacts DEF Left
  <2> HIDE DEF c, a
  <2>8. /\ data' \in [Enclaves -> DataSection] /\ data'[u].csp = c - 3
        /\ \A e \in Enclaves : /\ data'[e].sensor = data[e].sensor
                               /\ data'[e].buffer = data[e].buffer
        /\ \A e \in Enclaves \ {u} : data'[e] = data[e]
    BY <2>5, <2>7, CspFacts
  <2>9. memory'.port = memory.port
    <3>1. memory' = memory \/ \E x : memory' = [memory EXCEPT !.result = x]
      BY <2>5 DEF Processed
    <3> QED
      BY <3>1 DEF Kept, Types, Memory
  <2>10. AllRest'
    <3>1. ~ OnProteus'
      BY <1>3, <2>9 DEF OnProteus
    <3>2. Rests(u)'
      BY <2>7, <2>8, <3>1 DEF Rests, Left
    <3>3. \A e \in Enclaves \ {u} : Rests(e)'
      BY <1>3, <2>2, <2>8, <3>1 DEF OthersRest, Rests, Left
    <3> QED
      BY <3>2, <3>3 DEF AllRest
  <2>11. \A d \in Enclaves : /\ data'[d].sensor = data[d].sensor
                             /\ data'[d].buffer = data[d].buffer
                             /\ data[d].csp # NoCsp => data'[d].csp # NoCsp
    BY <2>7, <2>8
  <2> QED
    BY <1>1, <2>5, <2>6, <2>8, <2>10, <2>11, ProcessedFacts
<1> QED
  BY <1>2, <1>3

(* enclave_exit to main. *)
LEMMA LeavesStep ==
    ASSUME Kept, NEW e \in Enclaves, Leaves(regs, e), EnclaveStep
    PROVE  Kept' /\ MainOK(regs)'
<1>1. /\ In(regs, e, "exit") /\ regs.ra = "main" /\ regs.a0 \in Cap /\ "main" \in Who
      /\ "back" \in Label
  BY DEF Leaves, Kept, Types, Regs, Who, Label
<1>2. EnclaveExit
  BY <1>1, ActionAt
<1>3. Same /\ regs' = [Blank(At("main", "back"), NoSection) EXCEPT !.a0 = regs.a0]
  BY <1>1, <1>2 DEF EnclaveExit, Same
<1>4. regs' \in Regs /\ regs'.at = At("main", "back") /\ regs'.c31 = NoSection
      /\ regs'.a0 = regs.a0
  BY <1>1, <1>3, BlankFacts, C31Facts
<1>5. AllRest' /\ (Accepted' <=> Accepted)
  BY <1>3, SameParts DEF Leaves
<1>6. Accepts(regs.a0)'
  BY <1>4, <1>5 DEF Accepts, Leaves
<1>7. \A d \in memory'.loading : data'[d].csp # NoCsp
  BY <1>3 DEF Leaves, Same
<1>8. MainBack(regs)'
  BY <1>3, <1>4, <1>5, <1>6, <1>7 DEF MainBack, Leaves, Same
<1> QED
  BY <1>3, <1>4, <1>8, SameKept DEF MainOK

(* A step of an enclave on the way from main and back. *)
LEMMA MainEnclaveStep ==
    ASSUME Roomy, Kept, MainOK(regs), EnclaveStep
    PROVE  Kept' /\ MainOK(regs)'
<1>1. regs.at[1] \in Enclaves
  BY DEF EnclaveStep, EnclaveEntry, EnclaveInit, EnclaveExit, EnclaveReturn, Read,
         SetSensorEnclave, UseSensorCalls, MorelloUseSensor, EnclaveInvoke,
         MorelloEnclaveInvoke, EnclaveReturnEntry, MorelloReturnEntry, UseSensorResumes,
         MorelloUseSensorResumes, Runs
<1>2. regs.at # At("main", "idle") /\ regs.at # At("main", "back")
  BY <1>1, AtFacts, NameFacts
<1>3. PICK e \in Enclaves : Stage(regs, e)
  BY <1>2 DEF MainOK, MainIdle, MainBack, In
<1> QED
  BY <1>3, LoadsStep, SetsStep, BeginsStep, CallsStep, AsksStep, AnswersStep, ReturnsStep,
     ResumesStep, LeavesStep DEF Stage

-----------------------------------------------------------------------------
(* Registers that are kept while memory and data sections do not change.   *)

LEMMA SameMain ==
    ASSUME Same, NEW r, MainOK(r)
    PROVE  MainOK(r)'
<1>1. /\ memory' = memory /\ data' = data /\ uses' = uses
      /\ (OnProteus' <=> OnProteus) /\ (OnMorello' <=> OnMorello)
  BY DEF Same, OnProteus, OnMorello
<1>2. MainIdle(r) => MainIdle(r)'
  BY <1>1, SameParts DEF MainIdle, In
<1>3. MainBack(r) => MainBack(r)'
  BY <1>1, SameParts DEF MainBack, Accepts
<1>4. ASSUME NEW e \in Enclaves, Stage(r, e) PROVE Stage(r, e)'
  <2>1. (Loads(r, e) => Loads(r, e)') /\ (Sets(r, e) => Sets(r, e)')
    BY <1>1, SameParts DEF Loads, Sets, In
  <2>2. Begins(r, e) => Begins(r, e)'
    BY <1>1, SameParts DEF Begins, In, Left
  <2>3. Calls(r, e) => Calls(r, e)'
    BY <1>1, SameParts DEF Calls, In, Left
  <2>4. (Asks(r, e) => Asks(r, e)') /\ (Answers(r, e) => Answers(r, e)')
    BY <1>1, SameParts DEF Asks, Answers, In
  <2>5. (Returns(r, e) => Returns(r, e)') /\ (Resumes(r, e) => Resumes(r, e)')
    BY <1>1, SameParts DEF Returns, Resumes, In
  <2>6. Leaves(r, e) => Leaves(r, e)'
    BY <1>1, SameParts DEF Leaves, In, Accepts
  <2> QED
    BY <1>4, <2>1, <2>2, <2>3, <2>4, <2>5, <2>6 DEF Stage
<1> QED
  BY <1>2, <1>3, <1>4 DEF MainOK

LEMMA InRegs ==
    ASSUME NEW r, MainOK(r)', regs' = r
    PROVE  MainOK(regs)'
<1>1. MainIdle(r)' => MainIdle(regs)'
  BY DEF MainIdle, In
<1>2. MainBack(r)' => MainBack(regs)'
  BY DEF MainBack, Accepts
<1>3. ASSUME NEW e \in Enclaves, Stage(r, e)' PROVE Stage(regs, e)'
  <2>1. (Loads(r, e)' => Loads(regs, e)') /\ (Sets(r, e)' => Sets(regs, e)')
    BY DEF Loads, Sets, In
  <2>2. (Begins(r, e)' => Begins(regs, e)') /\ (Calls(r, e)' => Calls(regs, e)')
    BY DEF Begins, Calls, In
  <2>3. (Asks(r, e)' => Asks(regs, e)') /\ (Answers(r, e)' => Answers(regs, e)')
    BY DEF Asks, Answers, In
  <2>4. (Returns(r, e)' => Returns(regs, e)') /\ (Resumes(r, e)' => Resumes(regs, e)')
    BY DEF Returns, Resumes, In
  <2>5. Leaves(r, e)' => Leaves(regs, e)'
    BY DEF Leaves, In, Accepts
  <2> QED
    BY <1>3, <2>1, <2>2, <2>3, <2>4, <2>5 DEF Stage
<1> QED
  BY <1>1, <1>2, <1>3 DEF MainOK

LEMMA InSaved ==
    ASSUME NEW r, MainOK(r)', NEW d \in Section, trap'[d].saved = r
    PROVE  MainOK(trap[d].saved)'
<1>1. MainIdle(r)' => MainIdle(trap[d].saved)'
  BY DEF MainIdle, In
<1>2. MainBack(r)' => MainBack(trap[d].saved)'
  BY DEF MainBack, Accepts
<1>3. ASSUME NEW e \in Enclaves, Stage(r, e)' PROVE Stage(trap[d].saved, e)'
  <2>1. /\ Loads(r, e)' => Loads(trap[d].saved, e)'
        /\ Sets(r, e)' => Sets(trap[d].saved, e)'
    BY DEF Loads, Sets, In
  <2>2. /\ Begins(r, e)' => Begins(trap[d].saved, e)'
        /\ Calls(r, e)' => Calls(trap[d].saved, e)'
    BY DEF Begins, Calls, In
  <2>3. /\ Asks(r, e)' => Asks(trap[d].saved, e)'
        /\ Answers(r, e)' => Answers(trap[d].saved, e)'
    BY DEF Asks, Answers, In
  <2>4. /\ Returns(r, e)' => Returns(trap[d].saved, e)'
        /\ Resumes(r, e)' => Resumes(trap[d].saved, e)'
    BY DEF Returns, Resumes, In
  <2>5. Leaves(r, e)' => Leaves(trap[d].saved, e)'
    BY DEF Leaves, In, Accepts
  <2> QED
    BY <1>3, <2>1, <2>2, <2>3, <2>4, <2>5 DEF Stage
<1> QED
  BY <1>1, <1>2, <1>3 DEF MainOK

(* Registers move between the code and the trap data. *)
LEMMA Moves ==
    ASSUME Same, NEW d \in Section
    PROVE  /\ MainOK(regs) /\ trap'[d].saved = regs => MainOK(trap[d].saved)'
           /\ MainOK(trap[d].saved) /\ trap'[d].saved = trap[d].saved => MainOK(trap[d].saved)'
           /\ MainOK(trap[d].saved) /\ regs' = trap[d].saved => MainOK(regs)'
           /\ HandlerRuns(regs) /\ trap'[d].saved = regs => HandlerRuns(trap[d].saved)'
           /\ HandlerRuns(trap[d].saved) /\ regs' = trap[d].saved => HandlerRuns(regs)'
<1>1. ASSUME MainOK(regs), trap'[d].saved = regs PROVE MainOK(trap[d].saved)'
  <2>1. PICK r : r = regs
    OBVIOUS
  <2>2. MainOK(r)
    BY <1>1, <2>1
  <2> QED
    BY <1>1, <2>1, <2>2, SameMain, InSaved
<1>2. ASSUME MainOK(trap[d].saved), trap'[d].saved = trap[d].saved PROVE MainOK(trap[d].saved)'
  <2>1. PICK r : r = trap[d].saved
    OBVIOUS
  <2>2. MainOK(r)
    BY <1>2, <2>1
  <2> QED
    BY <1>2, <2>1, <2>2, SameMain, InSaved
<1>3. ASSUME MainOK(trap[d].saved), regs' = trap[d].saved PROVE MainOK(regs)'
  <2>1. PICK r : r = trap[d].saved
    OBVIOUS
  <2>2. MainOK(r)
    BY <1>3, <2>1
  <2> QED
    BY <1>3, <2>1, <2>2, SameMain, InRegs
<1>4. /\ HandlerRuns(regs) /\ trap'[d].saved = regs => HandlerRuns(trap[d].saved)'
      /\ HandlerRuns(trap[d].saved) /\ regs' = trap[d].saved => HandlerRuns(regs)'
  BY DEF HandlerRuns, In, Same
<1> QED
  BY <1>1, <1>2, <1>3, <1>4

(* Where the code main has invoked is: never in an enclave of the handlers. *)
LEMMA MainPlace ==
    ASSUME Separate, Kept, NEW r, MainOK(r)
    PROVE  /\ r.at[1] \in Section /\ r.at # At("handler", "isr") /\ r.at # At("handler", "back")
           /\ r.at = At("main", "idle") => MainIdle(r)
           /\ r.at = At("main", "back") => MainBack(r)
           /\ \/ r.c31 = NoSection
              \/ \E d \in Section : r.c31 = Unsealed(d) /\ d \notin memory.loaded \cap HandlerCalls
<1>1. CASE MainIdle(r)
  BY <1>1, AtFacts, NameFacts DEF MainIdle, In
<1>2. CASE MainBack(r)
  BY <1>2, AtFacts, NameFacts DEF MainBack
<1>3. CASE \E e \in Enclaves : Stage(r, e)
  <2>1. PICK e \in Enclaves : Stage(r, e)
    BY <1>3
  <2>2. \E d \in Enclaves : /\ \E l : In(r, d, l)
                            /\ d \notin memory.loaded \cap HandlerCalls
    <3>1. (Loads(r, e) \/ Sets(r, e) \/ Begins(r, e) \/ Calls(r, e) \/ Returns(r, e)
           \/ Resumes(r, e) \/ Leaves(r, e)) => \E l : In(r, e, l)
      BY DEF Loads, Sets, Begins, Calls, Returns, Resumes, Leaves
    <3>2. (Loads(r, e) \/ Sets(r, e) \/ Begins(r, e) \/ Calls(r, e) \/ Returns(r, e)
           \/ Resumes(r, e) \/ Leaves(r, e)) => e \notin memory.loaded \cap HandlerCalls
      BY DEF Loads, Sets, Begins, Calls, Returns, Resumes, Leaves, User, Client, Separate
    <3>3. ASSUME Asks(r, e) \/ Answers(r, e)
          PROVE  /\ data[e].sensor.enc \in Enclaves /\ \E l : In(r, data[e].sensor.enc, l)
                 /\ data[e].sensor.enc \notin memory.loaded \cap HandlerCalls
      <4>1. User(e)
        BY <3>3 DEF Asks, Answers
      <4>2. data[e].sensor.enc \in Enclaves /\ Identity[data[e].sensor.enc] = "sensor"
        BY <4>1, UserFacts
      <4>3. \E l : In(r, data[e].sensor.enc, l)
        BY <3>3 DEF Asks, Answers
      <4> QED
        BY <4>2, <4>3 DEF Separate
    <3> QED
      BY <2>1, <3>1, <3>2, <3>3 DEF Stage
  <2>3. PICK d \in Enclaves : /\ \E l : In(r, d, l)
                              /\ d \notin memory.loaded \cap HandlerCalls
    BY <2>2
  <2>4. r.at[1] = d /\ r.c31 = Unsealed(d)
    BY <2>3, AtFacts DEF In
  <2> QED
    BY <2>3, <2>4, AtFacts, NameFacts
<1> QED
  BY <1>1, <1>2, <1>3 DEF MainOK

(* A step of an enclave that a handler has invoked: it attests nothing. *)
LEMMA HandlerEnclaveStep ==
    ASSUME Separate, Kept, HandlerOK(regs), EnclaveStep
    PROVE  Same /\ regs' \in Regs /\ HandlerOK(regs)'
<1>1. regs \in Regs /\ regs.at[1] \in Enclaves
  BY DEF EnclaveStep, EnclaveEntry, EnclaveInit, EnclaveExit, EnclaveReturn, Read,
         SetSensorEnclave, UseSensorCalls, MorelloUseSensor, EnclaveInvoke,
         MorelloEnclaveInvoke, EnclaveReturnEntry, MorelloReturnEntry, UseSensorResumes,
         MorelloUseSensorResumes, Runs, Kept, Types
<1>2. HandlerRuns(regs)
  BY <1>1, AtFacts, NameFacts DEF HandlerOK
<1>3. PICK h \in memory.loaded \cap HandlerCalls :
        \/ /\ In(regs, h, "entry") \/ In(regs, h, "set_sensor_enclave")
           /\ regs.a7 = 1 /\ regs.ra = "handler" /\ regs.a0.enc = h
        \/ In(regs, h, "exit") /\ regs.ra = "handler"
  BY <1>2 DEF HandlerRuns
<1>4. h \in Enclaves /\ Identity[h] = "user" /\ data[h].csp # NoCsp
  BY NameFacts DEF Separate, Kept, Loaded
<1>5. CASE In(regs, h, "entry") /\ regs.a7 = 1 /\ regs.ra = "handler" /\ regs.a0.enc = h
  <2>1. EnclaveEntry
    BY <1>4, <1>5, ActionAt
  <2>2. /\ Same /\ regs' \in Regs /\ In(regs', h, "set_sensor_enclave")
        /\ regs'.a0 = regs.a0 /\ regs'.a7 = 1 /\ regs'.ra = "handler"
    BY <1>4, <1>5, <2>1, EntryFacts
  <2>3. h \in memory'.loaded \cap HandlerCalls
    BY <2>2 DEF Same
  <2>4. HandlerRuns(regs)'
    BY <1>5, <2>2, <2>3 DEF HandlerRuns, In
  <2> QED
    BY <2>2, <2>4 DEF HandlerOK
<1>6. CASE In(regs, h, "set_sensor_enclave") /\ regs.ra = "handler" /\ regs.a0.enc = h
  <2> DEFINE g == Goto("exit")
  <2>1. SetSensorEnclave
    BY <1>4, <1>6, ActionAt
  <2>2. ~ Attested(regs.a0.enc, regs.a0.sign)
    BY <1>4, <1>6 DEF Attested
  <2>3. regs' = [g EXCEPT !.a0 = Null] /\ Same
    BY <2>1, <2>2 DEF SetSensorEnclave, Same
  <2>4. g \in Regs /\ In(g, h, "exit") /\ g.ra = "handler"
    BY <1>1, <1>4, <1>6, GotoFacts DEF Label
  <2> HIDE DEF g
  <2>5. regs' \in Regs /\ In(regs', h, "exit") /\ regs'.ra = "handler"
    BY <2>3, <2>4, CapFacts DEF Regs, In
  <2>6. h \in memory'.loaded \cap HandlerCalls
    BY <2>3 DEF Same
  <2>7. HandlerRuns(regs)'
    BY <2>5, <2>6 DEF HandlerRuns, In
  <2> QED
    BY <2>3, <2>5, <2>7 DEF HandlerOK
<1>7. CASE In(regs, h, "exit") /\ regs.ra = "handler"
  <2>1. EnclaveExit
    BY <1>4, <1>7, ActionAt
  <2>2. Same /\ regs' = [Blank(At("handler", "back"), NoSection) EXCEPT !.a0 = regs.a0]
    BY <1>7, <2>1 DEF EnclaveExit, Same
  <2>3. regs.a0 \in Cap /\ "handler" \in Who /\ "back" \in Label
    BY <1>1 DEF Regs, Who, Label
  <2>4. regs' \in Regs /\ regs'.at = At("handler", "back")
    BY <2>2, <2>3, BlankFacts, C31Facts
  <2> QED
    BY <2>2, <2>4 DEF HandlerOK
<1> QED
  BY <1>3, <1>5, <1>6, <1>7

-----------------------------------------------------------------------------
(* Steps of main.                                                          *)

(* Main is idle, or an invocation has come back: nothing is trapped. *)
LEMMA MainStart ==
    ASSUME Kept, MainIdle(regs), NEW e \in Enclaves, memory' \in Memory, memory'.ok = FALSE,
           memory'.loaded = memory.loaded, memory'.port = memory.port, data' = data,
           uses' \in 0 .. MaxUses, regs' \in Regs
    PROVE  Kept' /\ (uses' = uses => AllRest')
<1>1. Kept'
  BY CallKept DEF Kept, Types
<1>2. ASSUME uses' = uses PROVE AllRest'
  BY <1>2 DEF MainIdle, AllRest, Rests, Left, OnProteus
<1> QED
  BY <1>1, <1>2

LEMMA LoadEnclaveStep ==
    ASSUME Kept, MainIdle(regs), NEW e \in Enclaves, LoadEnclave(e)
    PROVE  Kept' /\ MainOK(regs)'
<1>1. /\ e \notin memory.loaded /\ memory' = [memory EXCEPT !.loading = {e}, !.ok = FALSE]
      /\ regs' = Entered(e, Null, 0, "main") /\ data' = data /\ uses' = uses
  BY DEF LoadEnclave
<1>2. /\ memory' \in Memory /\ memory'.ok = FALSE /\ memory'.loading = {e}
      /\ memory'.loaded = memory.loaded /\ memory'.port = memory.port
  BY <1>1 DEF Kept, Types, Memory
<1>3. /\ regs' \in Regs /\ In(regs', e, "entry") /\ regs'.a0 = Null /\ regs'.a7 = 0
      /\ regs'.ra = "main"
  <2>1. Null \in Cap /\ "main" \in Who
    BY CapFacts DEF Who
  <2> QED
    BY <1>1, <2>1, EnteredFacts
<1>4. Kept' /\ AllRest'
  BY <1>1, <1>2, <1>3, MainStart DEF Kept, Types
<1>5. Loads(regs, e)'
  BY <1>1, <1>2, <1>3, <1>4 DEF Loads, In
<1> QED
  BY <1>4, <1>5, MainStage DEF Stage

LEMMA SetSensorStep ==
    ASSUME Kept, MainIdle(regs), NEW u \in Enclaves, NEW enc \in Enclaves, NEW sign \in Enclaves,
           SetSensor(u, enc, sign)
    PROVE  Kept' /\ MainOK(regs)'
<1> DEFINE a == [kind |-> "struct", enc |-> enc, sign |-> sign]
<1>1. /\ u \in memory.loaded \cap MainCalls /\ Identity[u] = "user"
      /\ enc \in memory.loaded /\ sign \in memory.loaded
      /\ memory' = [memory EXCEPT !.ok = FALSE]
      /\ regs' = Entered(u, a, 1, "main") /\ data' = data /\ uses' = uses
  BY DEF SetSensor
<1>2. /\ memory' \in Memory /\ memory'.ok = FALSE /\ memory'.loading = {}
      /\ memory'.loaded = memory.loaded /\ memory'.port = memory.port
  BY <1>1 DEF Kept, Types, Memory, MainIdle
<1>3. a \in Cap /\ a.kind = "struct" /\ a.enc = enc /\ a.sign = sign
  BY NameFacts DEF Cap, Kind
<1> HIDE DEF a
<1>4. /\ regs' \in Regs /\ In(regs', u, "entry") /\ regs'.a0 = a /\ regs'.a7 = 1
      /\ regs'.ra = "main"
  BY <1>1, <1>3, EnteredFacts DEF Who
<1>5. Kept' /\ AllRest'
  BY <1>1, <1>2, <1>4, MainStart DEF Kept, Types
<1>6. Sets(regs, u)'
  BY <1>1, <1>2, <1>3, <1>4, <1>5 DEF Sets, In, Client
<1> QED
  BY <1>5, <1>6, MainStage DEF Stage

LEMMA UseSensorStep ==
    ASSUME Kept, MainIdle(regs), NEW u \in Enclaves, NEW n \in Nonces, UseSensor(u, n)
    PROVE  Kept' /\ MainOK(regs)'
<1> DEFINE a == [Null EXCEPT !.kind = "args"]
<1>1. /\ u \in memory.loaded \cap MainCalls /\ data[u].sensor # NoEnclave
      /\ memory' = [memory EXCEPT !.nonce = n, !.result = 0, !.ok = FALSE]
      /\ regs' = Entered(u, a, 2, "main") /\ data' = data /\ uses' = uses + 1
      /\ uses < MaxUses
  BY DEF UseSensor
<1>2. /\ memory' \in Memory /\ memory'.ok = FALSE /\ memory'.loading = {}
      /\ memory'.loaded = memory.loaded /\ memory'.port = memory.port
  BY <1>1 DEF Kept, Types, Memory, MainIdle
<1>3. a \in Cap /\ "main" \in Who
  <2>1. "args" \in Kind /\ "none" \in Who
    BY DEF Kind, Who
  <2> QED
    BY <2>1, CapFacts DEF Who
<1> HIDE DEF a
<1>4. /\ regs' \in Regs /\ In(regs', u, "entry") /\ regs'.a7 = 2 /\ regs'.ra = "main"
  BY <1>1, <1>3, EnteredFacts
<1>5. uses \in Nat /\ uses' \in 0 .. MaxUses /\ uses' > 0 /\ uses' - 1 = uses
  BY <1>1, NameFacts DEF Kept, Types
<1>6. Kept'
  BY <1>1, <1>2, <1>4, <1>5, MainStart
<1>7. AllRest /\ (OnProteus' <=> OnProteus) /\ data[u].csp # NoCsp
  BY <1>1, <1>2 DEF MainIdle, OnProteus, Kept, Loaded
<1>8. OthersRest(u)'
  <2>1. ASSUME NEW e \in Enclaves, data[e].csp # NoCsp PROVE Left(data[e].csp, uses)'
    <3>1. Left(data[e].csp, uses) /\ data[e].csp \in Nat
      BY <1>7, <2>1, DataFacts DEF AllRest, Rests
    <3> QED
      BY <1>1, <1>5, <1>7, <3>1 DEF Left
  <2> QED
    BY <1>1, <2>1 DEF OthersRest, Rests
<1>9. Left(data[u].csp, uses - 1)'
  BY <1>1, <1>5, <1>7 DEF AllRest, Rests, Left
<1>10. User(u)'
  BY <1>1, <1>2, <1>5 DEF User, Client
<1>11. Begins(regs, u)'
  BY <1>4, <1>8, <1>9, <1>10 DEF Begins, In
<1> QED
  BY <1>6, <1>11, MainStage DEF Stage

LEMMA InvokeReturnsStep ==
    ASSUME Kept, MainBack(regs), InvokeReturns
    PROVE  Kept' /\ MainOK(regs)'
<1> DEFINE b == regs.a0.kind = "args" /\ regs.a0.sign # "none"
<1>1. /\ memory' = [memory EXCEPT !.loaded = @ \cup memory.loading, !.loading = {}, !.ok = b]
      /\ regs' = Blank(At("main", "idle"), Unsealed("main"))
      /\ data' = data /\ uses' = uses /\ readings' = readings
  BY DEF InvokeReturns
<1>2. b \in BOOLEAN /\ (b => Accepted)
  BY DEF MainBack, Accepts
<1> HIDE DEF b
<1>3. /\ memory' \in Memory /\ memory'.loaded = memory.loaded \cup memory.loading
      /\ memory'.loading = {} /\ memory'.ok = b /\ memory'.port = memory.port
      /\ memory'.nonce = memory.nonce /\ memory'.result = memory.result
  BY <1>1, <1>2 DEF Kept, Types, Memory
<1>4. In(regs', "main", "idle") /\ regs' \in Regs
  BY <1>1, BlankFacts, C31Facts, NameFacts DEF In, Label
<1>5. AllRest'
  BY <1>1, <1>3 DEF MainBack, AllRest, Rests, Left, OnProteus
<1>6. MainIdle(regs)'
  BY <1>3, <1>4, <1>5 DEF MainIdle, In
<1>7. Loaded'
  BY <1>1, <1>3 DEF Loaded, Kept, MainBack
<1>8. Sensors'
  BY <1>1, <1>3 DEF Kept, Sensors, Attests
<1>9. memory'.ok => Accepted'
  BY <1>1, <1>2, <1>3 DEF Accepted, Reads
<1>10. Types'
  BY <1>1, <1>3, <1>4 DEF Kept, Types
<1> QED
  BY <1>6, <1>7, <1>8, <1>9, <1>10 DEF Kept, MainOK

-----------------------------------------------------------------------------
(* Traps.                                                                  *)

LEMMA OneFacts ==
    ASSUME NEW S, NEW x \in S
    PROVE  /\ <<x>> \o <<>> = <<x>> /\ <<x>> \in Seq(S) /\ Head(<<x>>) = x /\ Tail(<<x>>) = <<>>
           /\ <<x>> # <<>> /\ <<>> \in Seq(S)
  OBVIOUS

(* A trap of code that runs with section d, which keeps no registers yet. *)
LEMMA TrapFacts ==
    ASSUME Kept, TrapTypes, Trap, NEW d \in Section, regs.c31 = Unsealed(d),
           trap[d].tag = FALSE, want[d] = <<>>
    PROVE  /\ Same /\ regs' \in Regs /\ TrapTypes' /\ frames' = frames
           /\ mcause' = "interrupt" \/ (mcause' = "syscall" /\ regs.at = At("main", "idle"))
           /\ \/ Faulted'
              \/ /\ Isr(d)' /\ Trapped(d, mcause)' /\ trap'[d].saved = regs
                 /\ \A x \in Section \ {d} : trap'[x] = trap[x] /\ want'[x] = want[x]
<1>1. Same /\ frames' = frames
  BY DEF Trap, Same
<1>2. PICK cause \in {"interrupt", "syscall"} : TrustedTrap(cause)
  BY DEF Trap
<1>3. regs.c31.of = d /\ regs \in Regs /\ regs.at \in Who \X Label /\ regs.c31 \in C31 /\ regs.a0 \in Cap
  BY C31Facts DEF Kept, Types, Regs
<1>4. /\ cause = "syscall" => regs.at = At("main", "idle")
      /\ mcause' = cause /\ mcause' \in Cause /\ traps' \in 0 .. MaxTraps
  BY <1>2, NameFacts DEF TrustedTrap, TrapTypes, Cause
<1>5. CASE d \notin TrapData
  <2>1. regs' = Blank(At("none", "fault"), regs.c31) /\ UNCHANGED <<trap, want>>
    BY <1>2, <1>3, <1>5 DEF TrustedTrap
  <2>2. regs' \in Regs /\ regs'.at = At("none", "fault")
    BY <1>3, <2>1, BlankFacts DEF Who, Label
  <2>3. Faulted'
    BY <2>2, AtFacts DEF Faulted
  <2>4. TrapTypes'
    BY <1>4, <2>1 DEF TrapTypes
  <2> QED
    BY <1>1, <1>4, <2>2, <2>3, <2>4
<1>6. CASE d \in TrapData
  <2> DEFINE w == [regs |-> regs, cause |-> cause]
             q == [trap[d] EXCEPT !.saved = regs, !.epcc = regs.at, !.tag = TRUE]
             b == Blank(At("handler", "isr"), SealedC31(d))
  <2>1. /\ trap' = [trap EXCEPT ![d] = q] /\ regs' = [b EXCEPT !.a0 = regs.a0]
        /\ want' = [want EXCEPT ![d] = <<w>> \o @]
    <3>1. /\ trap' = TrapDataNext(d) /\ regs' = [b EXCEPT !.a0 = regs.a0]
          /\ want' = [want EXCEPT ![d] = <<w>> \o @]
      BY <1>2, <1>3, <1>6 DEF TrustedTrap, SealedC31
    <3>2. TrapDataNext(d) = [trap EXCEPT ![d] = q]
      BY DEF TrapDataNext, TrapTypes, TrapRecord
    <3> QED
      BY <3>1, <3>2
  <2>2. w \in [regs : Regs, cause : Cause]
    BY <1>3 DEF Cause
  <2>3. q \in TrapRecord /\ q.saved = regs /\ q.epcc = regs.at /\ q.tag = TRUE
    BY <1>3 DEF TrapTypes, TrapRecord
  <2>4. regs' \in Regs /\ regs'.at = At("handler", "isr") /\ regs'.c31 = SealedC31(d)
    BY <1>3, <2>1, BlankFacts, C31Facts DEF Who, Label
  <2> HIDE DEF w, q, b
  <2>5. /\ want'[d] = <<w>> /\ \A x \in Section \ {d} : want'[x] = want[x]
        /\ want' \in [Section -> Seq([regs : Regs, cause : Cause])]
    <3>1. want \in [Section -> Seq([regs : Regs, cause : Cause])]
      BY DEF TrapTypes
    <3>2. <<w>> \in Seq([regs : Regs, cause : Cause]) /\ <<w>> \o want[d] = <<w>>
      BY <2>2, OneFacts
    <3>3. want' = [want EXCEPT ![d] = <<w>>]
      BY <2>1, <3>2
    <3> QED
      BY <3>1, <3>2, <3>3
  <2>6. /\ trap' \in [Section -> TrapRecord] /\ trap'[d] = q
        /\ \A x \in Section \ {d} : trap'[x] = trap[x]
    BY <2>1, <2>3 DEF TrapTypes
  <2>7. TrapTypes'
    BY <1>4, <2>5, <2>6 DEF TrapTypes
  <2>8. Trapped(d, mcause)'
    BY <1>4, <2>3, <2>5, <2>6 DEF Trapped, w
  <2>9. Isr(d)'
    BY <2>4 DEF Isr
  <2> QED
    BY <1>1, <1>4, <2>3, <2>4, <2>5, <2>6, <2>7, <2>8, <2>9
<1> QED
  BY <1>5, <1>6

(* A trap of code without a section. *)
LEMMA WindowTrapFacts ==
    ASSUME Kept, TrapTypes, Trap, regs.c31 = NoSection
    PROVE  Same /\ regs' \in Regs /\ TrapTypes' /\ Faulted'
<1>1. Same
  BY DEF Trap, Same
<1>2. PICK cause \in {"interrupt", "syscall"} : TrustedTrap(cause)
  BY DEF Trap
<1>3. regs.c31.of \notin TrapData /\ regs.c31 \in C31
  BY C31Facts, NameFacts DEF Kept, Types, Regs
<1>4. mcause' \in Cause /\ traps' \in 0 .. MaxTraps
  BY <1>2, NameFacts DEF TrustedTrap, TrapTypes, Cause
<1>5. regs' = Blank(At("none", "fault"), regs.c31) /\ UNCHANGED <<trap, want>>
  BY <1>2, <1>3 DEF TrustedTrap
<1>6. regs' \in Regs /\ regs'.at = At("none", "fault")
  BY <1>3, <1>5, BlankFacts DEF Who, Label
<1> QED
  BY <1>1, <1>4, <1>5, <1>6, AtFacts DEF Faulted, TrapTypes

(* The return from the handler of section d. *)
LEMMA ReturnFacts ==
    ASSUME Kept, TrapTypes, Return, NEW d \in Section, Isr(d), Trapped(d, mcause)
    PROVE  /\ Same /\ regs' \in Regs /\ TrapTypes' /\ frames' = frames /\ mcause' = mcause
           /\ trap'[d].tag = FALSE /\ want'[d] = <<>>
           /\ \A x \in Section \ {d} : trap'[x] = trap[x] /\ want'[x] = want[x]
           /\ mcause # "syscall" => regs' = trap[d].saved
           /\ mcause = "syscall" => /\ regs' = [trap[d].saved EXCEPT !.a0 = SyscallResult]
                                    /\ regs'.at = trap[d].saved.at
                                    /\ regs'.c31 = trap[d].saved.c31
<1> DEFINE r == trap[d].saved
<1>1. /\ Same /\ frames' = frames /\ mcause' = mcause /\ traps' = traps
  BY DEF Return, TrapReturn, Same
<1>2. regs.c31.of = d
  BY C31Facts DEF Isr
<1>3. /\ trap[d] \in TrapRecord /\ trap[d].saved \in Regs /\ trap[d].epcc = r.at /\ trap[d].tag = TRUE
      /\ trap \in [Section -> TrapRecord]
      /\ want \in [Section -> Seq([regs : Regs, cause : Cause])]
      /\ want[d] = <<[regs |-> r, cause |-> mcause]>> /\ mcause \in Cause
  BY DEF TrapTypes, TrapRecord, Trapped
<1> DEFINE b == Blank(At("none", "none"), NoSection)
           q == [trap[d] EXCEPT !.tag = FALSE, !.saved = b]
<1>4. /\ regs' = Restored(d) /\ trap' = [trap EXCEPT ![d] = q]
      /\ want' = [want EXCEPT ![d] = Tail(@)]
  BY <1>2, <1>3 DEF Return, TrapReturn
<1>5. b \in Regs
  BY BlankFacts, C31Facts DEF Who, Label
<1> HIDE DEF b
<1>6. q \in TrapRecord /\ q.tag = FALSE
  BY <1>3, <1>5 DEF TrapRecord
<1> HIDE DEF q
<1>7. /\ trap' \in [Section -> TrapRecord] /\ trap'[d] = q
      /\ \A x \in Section \ {d} : trap'[x] = trap[x]
  BY <1>3, <1>4, <1>6
<1>8. /\ want' \in [Section -> Seq([regs : Regs, cause : Cause])] /\ want'[d] = <<>>
      /\ \A x \in Section \ {d} : want'[x] = want[x]
  <2>1. [regs |-> r, cause |-> mcause] \in [regs : Regs, cause : Cause]
    BY <1>3
  <2>2. Tail(want[d]) = <<>> /\ <<>> \in Seq([regs : Regs, cause : Cause])
    BY <1>3, <2>1, OneFacts
  <2>3. want' = [want EXCEPT ![d] = <<>>]
    BY <1>4, <2>2
  <2> QED
    BY <1>3, <2>2, <2>3
<1>9. TrapTypes'
  BY <1>1, <1>7, <1>8 DEF TrapTypes
<1> HIDE DEF r
<1>10. r \in Regs
  BY <1>3 DEF r
<1>11. CASE mcause # "syscall"
  <2>1. regs' = [r EXCEPT !.at = r.at, !.a0 = r.a0]
    BY <1>3, <1>4, <1>11 DEF Restored, r
  <2>2. regs' = r
    BY <1>10, <2>1 DEF Regs
  <2> QED
    BY <1>1, <1>6, <1>7, <1>8, <1>9, <1>10, <1>11, <2>2 DEF r
<1>12. CASE mcause = "syscall"
  <2>1. regs' = [r EXCEPT !.at = r.at, !.a0 = SyscallResult]
    BY <1>3, <1>4, <1>12 DEF Restored, r
  <2>2. SyscallResult \in Cap
    BY CapFacts
  <2>3. regs' = [r EXCEPT !.a0 = SyscallResult] /\ regs' \in Regs /\ regs'.at = r.at
        /\ regs'.c31 = r.c31
    BY <1>10, <2>1, <2>2 DEF Regs
  <2> QED
    BY <1>1, <1>6, <1>7, <1>8, <1>9, <1>12, <2>3 DEF r
<1> QED
  BY <1>11, <1>12

-----------------------------------------------------------------------------
(* The invariant is inductive.                                             *)

(* Which steps code takes is told by where it is. *)
LEMMA WhoSteps ==
    /\ EnclaveStep => regs.at[1] \in Enclaves
    /\ MainStep => regs.at = At("main", "idle")
    /\ InvokeReturns => regs.at = At("main", "back")
    /\ Return => regs.at = At("handler", "isr")
    /\ \A u : HandlerInvokes(u) => regs.at = At("handler", "isr") /\ frames = <<>>
    /\ HandlerResumes => regs.at = At("handler", "back")
    /\ Trap => regs.at[1] \notin {"handler", "none"}
<1>1. EnclaveStep => regs.at[1] \in Enclaves
  BY DEF EnclaveStep, EnclaveEntry, EnclaveInit, EnclaveExit, EnclaveReturn, Read,
         SetSensorEnclave, UseSensorCalls, MorelloUseSensor, EnclaveInvoke,
         MorelloEnclaveInvoke, EnclaveReturnEntry, MorelloReturnEntry, UseSensorResumes,
         MorelloUseSensorResumes, Runs
<1>2. (MainStep => regs.at = At("main", "idle")) /\ (InvokeReturns => regs.at = At("main", "back"))
  BY DEF MainStep, LoadEnclave, SetSensor, UseSensor, InvokeReturns
<1>3. /\ Return => regs.at = At("handler", "isr")
      /\ \A u : HandlerInvokes(u) => regs.at = At("handler", "isr") /\ frames = <<>>
      /\ HandlerResumes => regs.at = At("handler", "back")
  BY DEF Return, TrapReturn, HandlerInvokes, HandlerResumes
<1>4. Trap => regs.at[1] \notin {"handler", "none"}
  BY DEF Trap, TrustedTrap
<1> QED
  BY <1>1, <1>2, <1>3, <1>4

(* Neither main nor its enclaves are in the handler. *)
LEMMA Level0Step ==
    ASSUME Separate, Roomy, Kept, TrapTypes, Level0, Next
    PROVE  Kept' /\ TrapTypes' /\ Levels'
<1>1. MainOK(regs) /\ frames = <<>> /\ Untrapped(Section)
  BY DEF Level0
<1>2. /\ regs.at # At("handler", "isr") /\ regs.at # At("handler", "back")
      /\ regs.at = At("main", "idle") => MainIdle(regs)
      /\ regs.at = At("main", "back") => MainBack(regs)
      /\ \/ regs.c31 = NoSection
         \/ \E d \in Section : regs.c31 = Unsealed(d) /\ d \notin memory.loaded \cap HandlerCalls
  BY <1>1, MainPlace
<1>3. ~ HandlerStep
  BY <1>2, WhoSteps DEF HandlerStep
<1>4. ASSUME Kept', MainOK(regs)', UNCHANGED <<trap, mcause, traps, want, frames>>
      PROVE  Kept' /\ TrapTypes' /\ Levels'
  <2>1. TrapTypes'
    BY <1>4 DEF TrapTypes
  <2>2. Level0'
    BY <1>1, <1>4 DEF Level0, Untrapped
  <2> QED
    BY <1>4, <2>1, <2>2 DEF Levels
<1>5. CASE EnclaveStep
  BY <1>1, <1>4, <1>5, MainEnclaveStep, StepKeepsTraps
<1>6. CASE MainStep
  <2>1. MainIdle(regs)
    BY <1>2, <1>6, WhoSteps
  <2>2. UNCHANGED <<trap, mcause, traps, want, frames>>
    BY <1>6 DEF MainStep, LoadEnclave, SetSensor, UseSensor
  <2>3. Kept' /\ MainOK(regs)'
    BY <1>6, <2>1, LoadEnclaveStep, SetSensorStep, UseSensorStep DEF MainStep
  <2> QED
    BY <1>4, <2>2, <2>3
<1>7. CASE InvokeReturns
  <2>1. MainBack(regs)
    BY <1>2, <1>7, WhoSteps
  <2>2. UNCHANGED <<trap, mcause, traps, want, frames>>
    BY <1>7 DEF InvokeReturns
  <2> QED
    BY <1>4, <1>7, <2>1, <2>2, InvokeReturnsStep
<1>8. CASE Trap
  <2>1. CASE regs.c31 = NoSection
    BY <1>8, <2>1, WindowTrapFacts, SameKept DEF Levels
  <2>2. CASE \E d \in Section : regs.c31 = Unsealed(d)
    <3>1. PICK d \in Section : regs.c31 = Unsealed(d)
      BY <2>2
    <3>2. trap[d].tag = FALSE /\ want[d] = <<>>
      BY <1>1 DEF Untrapped
    <3>3. /\ Same /\ regs' \in Regs /\ TrapTypes' /\ frames' = frames
          /\ \/ Faulted'
             \/ /\ Isr(d)' /\ Trapped(d, mcause)' /\ trap'[d].saved = regs
                /\ \A x \in Section \ {d} : trap'[x] = trap[x] /\ want'[x] = want[x]
      BY <1>8, <3>1, <3>2, TrapFacts
    <3>4. Kept'
      BY <3>3, SameKept
    <3>5. CASE ~ Faulted'
      <4>1. MainOK(trap[d].saved)'
        BY <1>1, <3>3, <3>5, Moves
      <4>2. Untrapped(Section \ {d})'
        BY <1>1, <3>3, <3>5 DEF Untrapped
      <4>3. Level1'
        BY <1>1, <3>3, <3>5, <4>1, <4>2 DEF Level1
      <4> QED
        BY <3>3, <3>4, <4>3 DEF Levels
    <3> QED
      BY <3>3, <3>4, <3>5 DEF Levels
  <2> QED
    BY <1>2, <2>1, <2>2
<1> QED
  BY <1>3, <1>5, <1>6, <1>7, <1>8 DEF Next

(* A step of the handler, with section d sealed in c31. *)
LEMMA IsrSteps ==
    ASSUME NEW d \in Section, Isr(d), Next
    PROVE  /\ Return \/ \E u \in Enclaves : HandlerInvokes(u)
           /\ frames # <<>> => Return
<1>1. regs.at = At("handler", "isr")
  BY DEF Isr
<1>2. /\ regs.at[1] \notin Enclaves /\ regs.at # At("main", "idle") /\ regs.at # At("main", "back")
      /\ regs.at # At("handler", "back") /\ regs.at[1] = "handler"
  BY <1>1, AtFacts, NameFacts
<1> QED
  BY <1>2, WhoSteps DEF Next, HandlerStep

(* The code goes on with the registers it had; those of an idle main get the
   result of its system call. *)
LEMMA MainRestored ==
    ASSUME Separate, Kept, TrapTypes, Return, NEW d \in Section, Isr(d), Trapped(d, mcause),
           MainOK(trap[d].saved)
    PROVE  MainOK(regs)'
<1>1. /\ Same
      /\ mcause # "syscall" => regs' = trap[d].saved
      /\ mcause = "syscall" => regs'.at = trap[d].saved.at /\ regs'.c31 = trap[d].saved.c31
  BY ReturnFacts
<1>2. CASE mcause # "syscall"
  BY <1>1, <1>2, Moves
<1>3. CASE mcause = "syscall"
  <2>1. PICK r : r = trap[d].saved
    OBVIOUS
  <2>2. MainOK(r) /\ r.at = At("main", "idle")
    BY <1>3, <2>1 DEF Trapped
  <2>3. MainIdle(r)
    BY <2>2, MainPlace
  <2>4. MainIdle(regs)'
    BY <1>1, <1>3, <2>1, <2>3, SameParts DEF MainIdle, In, Same
  <2> QED
    BY <2>4 DEF MainOK
<1> QED
  BY <1>2, <1>3

LEMMA Level1Step ==
    ASSUME Separate, Kept, TrapTypes, Level1, Next
    PROVE  Kept' /\ TrapTypes' /\ Levels'
<1>1. PICK d \in Section : /\ Isr(d) /\ frames = <<>> /\ Trapped(d, mcause)
                           /\ MainOK(trap[d].saved) /\ Untrapped(Section \ {d})
  BY DEF Level1
<1>2. CASE Return
  <2>1. /\ Same /\ regs' \in Regs /\ TrapTypes' /\ frames' = frames
        /\ trap'[d].tag = FALSE /\ want'[d] = <<>>
        /\ \A x \in Section \ {d} : trap'[x] = trap[x] /\ want'[x] = want[x]
    BY <1>1, <1>2, ReturnFacts
  <2>2. MainOK(regs)'
    BY <1>1, <1>2, MainRestored
  <2>3. Untrapped(Section)'
    BY <1>1, <2>1 DEF Untrapped
  <2>4. Level0'
    BY <1>1, <2>1, <2>2, <2>3 DEF Level0
  <2> QED
    BY <2>1, <2>4, SameKept DEF Levels
<1>3. ASSUME NEW u \in Enclaves, HandlerInvokes(u) PROVE Kept' /\ TrapTypes' /\ Levels'
  <2> DEFINE a == [kind |-> "struct", enc |-> u, sign |-> u]
  <2>1. /\ mcause = "interrupt" /\ frames' = <<regs.c31>> /\ u \in memory.loaded \cap HandlerCalls
        /\ regs' = Entered(u, a, 1, "handler") /\ UNCHANGED <<trap, mcause, traps, want>> /\ Same
    BY <1>3 DEF HandlerInvokes, Same
  <2>2. a \in Cap /\ a.enc = u /\ "handler" \in Who
    BY NameFacts DEF Cap, Kind, Who
  <2> HIDE DEF a
  <2>3. /\ regs' \in Regs /\ In(regs', u, "entry") /\ regs'.a0 = a /\ regs'.a7 = 1
        /\ regs'.ra = "handler"
    BY <2>1, <2>2, EnteredFacts
  <2>4. Kept' /\ TrapTypes'
    BY <2>1, <2>3, SameKept DEF TrapTypes
  <2>5. HandlerOK(regs)'
    BY <2>1, <2>2, <2>3 DEF HandlerOK, HandlerRuns, In, Same
  <2>6. MainOK(trap[d].saved)'
    BY <1>1, <2>1, Moves
  <2>7. Trapped(d, "interrupt")'
    BY <1>1, <2>1 DEF Trapped
  <2>8. Invoking(d)'
    BY <1>1, <2>1, <2>6, <2>7 DEF Invoking, Isr
  <2>9. Untrapped(Section \ {d})'
    BY <1>1, <2>1 DEF Untrapped
  <2>10. Level2'
    BY <2>5, <2>8, <2>9 DEF Level2
  <2> QED
    BY <2>4, <2>10 DEF Levels
<1> QED
  BY <1>1, <1>2, <1>3, IsrSteps

LEMMA Level2Step ==
    ASSUME Separate, Kept, TrapTypes, Level2, Next
    PROVE  Kept' /\ TrapTypes' /\ Levels'
<1>1. PICK d \in Section : Invoking(d) /\ HandlerOK(regs) /\ Untrapped(Section \ {d})
  BY DEF Level2
<1>2. /\ frames = <<SealedC31(d)>> /\ Trapped(d, "interrupt") /\ mcause = "interrupt"
      /\ MainOK(trap[d].saved)
  BY <1>1 DEF Invoking
<1>3. ASSUME HandlerRuns(regs)
      PROVE  \E h \in memory.loaded \cap HandlerCalls :
                h \in Enclaves /\ regs.at[1] = h /\ regs.c31 = Unsealed(h)
  BY <1>3, AtFacts, NameFacts DEF HandlerRuns, In
<1>4. /\ regs.at # At("main", "idle") /\ regs.at # At("main", "back")
      /\ regs.at # At("handler", "isr")
  <2>1. CASE HandlerRuns(regs)
    BY <1>3, <2>1, AtFacts, NameFacts
  <2>2. CASE regs.at = At("handler", "back")
    BY <2>2, AtFacts
  <2> QED
    BY <1>1, <2>1, <2>2 DEF HandlerOK
<1>5. EnclaveStep \/ HandlerResumes \/ Trap
  BY <1>4, WhoSteps DEF Next, HandlerStep
<1>6. ASSUME Same, trap' = trap, want' = want
      PROVE  /\ MainOK(trap[d].saved)' /\ Trapped(d, "interrupt")'
             /\ Untrapped(Section \ {d})'
  <2>1. MainOK(trap[d].saved)'
    BY <1>2, <1>6, Moves
  <2> QED
    BY <1>1, <1>2, <1>6, <2>1 DEF Trapped, Untrapped
<1>7. CASE EnclaveStep
  <2>1. Same /\ regs' \in Regs /\ HandlerOK(regs)' /\ UNCHANGED <<trap, mcause, traps, want, frames>>
    BY <1>1, <1>7, HandlerEnclaveStep, StepKeepsTraps
  <2>2. Invoking(d)' /\ Untrapped(Section \ {d})'
    BY <1>2, <1>6, <2>1 DEF Invoking
  <2>3. Level2'
    BY <2>1, <2>2 DEF Level2
  <2> QED
    BY <2>1, <2>3, SameKept DEF Levels, TrapTypes
<1>8. CASE HandlerResumes
  <2>1. /\ regs' = Blank(At("handler", "isr"), Head(frames)) /\ frames' = Tail(frames)
        /\ Same /\ UNCHANGED <<trap, mcause, traps, want>>
    BY <1>8 DEF HandlerResumes, Same
  <2>2. SealedC31(d) \in C31
    BY C31Facts
  <2>3. Head(frames) = SealedC31(d) /\ Tail(frames) = <<>>
    BY <1>2, <2>2, OneFacts
  <2>4. regs' \in Regs /\ regs'.at = At("handler", "isr") /\ regs'.c31 = SealedC31(d)
    BY <2>1, <2>2, <2>3, BlankFacts DEF Who, Label
  <2>5. MainOK(trap[d].saved)' /\ Trapped(d, "interrupt")' /\ Untrapped(Section \ {d})'
    BY <1>6, <2>1
  <2>6. Trapped(d, mcause)'
    BY <1>2, <2>1, <2>5 DEF Trapped
  <2>7. Level1'
    BY <2>1, <2>3, <2>4, <2>5, <2>6 DEF Level1, Isr
  <2> QED
    BY <2>1, <2>4, <2>7, SameKept DEF Levels, TrapTypes
<1>9. CASE Trap
  <2>1. HandlerRuns(regs)
    BY <1>1, <1>9, WhoSteps, AtFacts DEF HandlerOK
  <2>2. PICK h \in memory.loaded \cap HandlerCalls :
           h \in Enclaves /\ regs.at[1] = h /\ regs.c31 = Unsealed(h)
    BY <1>3, <2>1
  <2>3. h \in Section /\ d # h
    <3>1. h \in Section
      BY <2>2, NameFacts
    <3>2. trap[d].saved.c31 = Unsealed(d)
      BY <1>2 DEF Trapped
    <3>3. PICK r : r = trap[d].saved
      OBVIOUS
    <3>4. MainOK(r) /\ r.c31.of = d
      BY <1>2, <3>2, <3>3, C31Facts
    <3>5. \/ r.c31 = NoSection
          \/ \E x \in Section : r.c31 = Unsealed(x) /\ x \notin memory.loaded \cap HandlerCalls
      BY <3>4, MainPlace
    <3>6. d \notin memory.loaded \cap HandlerCalls
      BY <3>4, <3>5, C31Facts, NameFacts
    <3> QED
      BY <3>1, <3>6
  <2>4. trap[h].tag = FALSE /\ want[h] = <<>>
    BY <1>1, <2>3 DEF Untrapped
  <2>5. /\ Same /\ regs' \in Regs /\ TrapTypes' /\ frames' = frames
        /\ mcause' = "interrupt" \/ regs.at = At("main", "idle")
        /\ \/ Faulted'
           \/ /\ Isr(h)' /\ Trapped(h, mcause)' /\ trap'[h].saved = regs
              /\ \A x \in Section \ {h} : trap'[x] = trap[x] /\ want'[x] = want[x]
    BY <1>9, <2>2, <2>3, <2>4, TrapFacts
  <2>6. Kept' /\ mcause' = "interrupt"
    BY <1>4, <2>5, SameKept
  <2>7. CASE ~ Faulted'
    <3>1. Trapped(h, "interrupt")'
      BY <2>5, <2>6, <2>7 DEF Trapped
    <3>2. HandlerRuns(trap[h].saved)'
      BY <2>1, <2>3, <2>5, <2>7, Moves
    <3>3. trap'[d] = trap[d] /\ want'[d] = want[d]
      BY <2>3, <2>5, <2>7
    <3>4. MainOK(trap[d].saved)'
      BY <1>2, <2>5, <3>3, Moves
    <3>5. Trapped(d, "interrupt")'
      BY <1>2, <3>3 DEF Trapped
    <3>6. Invoking(d)'
      BY <1>2, <2>5, <2>6, <3>4, <3>5 DEF Invoking
    <3>7. Untrapped(Section \ {d, h})'
      BY <1>1, <2>5, <2>7 DEF Untrapped
    <3>8. Level3'
      BY <2>3, <2>5, <2>7, <3>1, <3>2, <3>6, <3>7 DEF Level3
    <3> QED
      BY <2>5, <2>6, <3>8 DEF Levels
  <2> QED
    BY <2>5, <2>6, <2>7 DEF Levels
<1> QED
  BY <1>5, <1>7, <1>8, <1>9

LEMMA Level3Step ==
    ASSUME Kept, TrapTypes, Level3, Next
    PROVE  Kept' /\ TrapTypes' /\ Levels'
<1>1. PICK d \in Section, h \in Section :
        /\ Invoking(d) /\ d # h /\ Isr(h) /\ Trapped(h, "interrupt")
        /\ HandlerRuns(trap[h].saved) /\ Untrapped(Section \ {d, h})
  BY DEF Level3
<1>2. /\ frames = <<SealedC31(d)>> /\ Trapped(d, "interrupt") /\ mcause = "interrupt"
      /\ MainOK(trap[d].saved)
  BY <1>1 DEF Invoking
<1>3. frames # <<>>
  BY <1>2, OneFacts, C31Facts
<1>4. Return
  BY <1>1, <1>3, IsrSteps
<1>5. Trapped(h, mcause)
  BY <1>1, <1>2
<1>6. /\ Same /\ regs' \in Regs /\ TrapTypes' /\ frames' = frames /\ mcause' = mcause
      /\ trap'[h].tag = FALSE /\ want'[h] = <<>>
      /\ \A x \in Section \ {h} : trap'[x] = trap[x] /\ want'[x] = want[x]
      /\ mcause # "syscall" => regs' = trap[h].saved
  BY <1>1, <1>4, <1>5, ReturnFacts
<1>7. HandlerRuns(regs)'
  BY <1>1, <1>2, <1>6, Moves
<1>8. trap'[d] = trap[d] /\ want'[d] = want[d]
  BY <1>1, <1>6
<1>9. MainOK(trap[d].saved)'
  BY <1>2, <1>6, <1>8, Moves
<1>10. Trapped(d, "interrupt")'
  BY <1>2, <1>8 DEF Trapped
<1>11. Invoking(d)'
  BY <1>2, <1>6, <1>9, <1>10 DEF Invoking
<1>12. Untrapped(Section \ {d})'
  BY <1>1, <1>6 DEF Untrapped
<1>13. Level2'
  BY <1>7, <1>11, <1>12 DEF Level2, HandlerOK
<1> QED
  BY <1>6, <1>13, SameKept DEF Levels

(* Where the trap handler has faulted nothing is left to run. *)
LEMMA FaultedStops == Faulted => ~ Next
<1> SUFFICES ASSUME Faulted PROVE ~ Next
  OBVIOUS
<1>1. regs.at[1] = "none" /\ "none" \notin Enclaves
  BY NameFacts, AtFacts DEF Faulted
<1>2. /\ regs.at # At("main", "idle") /\ regs.at # At("main", "back")
      /\ regs.at # At("handler", "isr") /\ regs.at # At("handler", "back")
  BY <1>1, AtFacts
<1> QED
  BY <1>1, <1>2, WhoSteps DEF Next, HandlerStep

LEMMA AInvInit == Init => AInv
<1> SUFFICES ASSUME Init PROVE AInv
  OBVIOUS
<1> DEFINE m(p) == [port |-> p, loaded |-> {}, loading |-> {}, nonce |-> 0, result |-> 0, ok |-> FALSE]
           s == [csp |-> NoCsp, sensor |-> NoEnclave, buffer |-> [nonce |-> 0, result |-> 0],
                 answer |-> Null, stack |-> [i \in 1 .. StackSlots + 3 |-> Null]]
<1>1. /\ InitTraps /\ frames = <<>> /\ uses = 0 /\ data = [e \in Enclaves |-> s]
      /\ \E p \in Ports : memory = m(p)
  BY DEF Init
<1>2. memory \in Memory /\ memory.loaded = {} /\ memory.loading = {} /\ memory.ok = FALSE
  BY <1>1 DEF Memory
<1>3. s \in DataSection /\ s.csp = NoCsp /\ s.sensor = NoEnclave
  <2>1. [i \in 1 .. StackSlots + 3 |-> Null] \in Stack /\ Null \in Cap
    BY CapFacts DEF Stack
  <2>2. NoEnclave \in Sensor /\ [nonce |-> 0, result |-> 0] \in Buffer
    BY DEF NoEnclave, Sensor, Buffer
  <2> QED
    BY <2>1, <2>2 DEF DataSection
<1> HIDE DEF s, m
<1>4. data \in [Enclaves -> DataSection] /\ \A e \in Enclaves : data[e] = s
  BY <1>1, <1>3
<1>5. /\ regs = Blank(At("main", "idle"), Unsealed("main")) /\ mcause = "none" /\ traps = 0
      /\ want = [d \in Section |-> <<>>]
      /\ trap = [d \in Section |-> [tag |-> FALSE, epcc |-> At("none", "none"),
                                    saved |-> Blank(At("none", "none"), NoSection)]]
  BY <1>1 DEF InitTraps
<1>6. regs \in Regs /\ In(regs, "main", "idle")
  BY <1>5, BlankFacts, C31Facts, NameFacts DEF In, Label
<1>7. Kept
  BY <1>1, <1>2, <1>3, <1>4, <1>6, NameFacts DEF Kept, Types, Loaded, Sensors
<1>8. AllRest
  BY <1>3, <1>4 DEF AllRest, Rests
<1>9. MainOK(regs)
  BY <1>2, <1>6, <1>8 DEF MainOK, MainIdle
<1>10. trap \in [Section -> TrapRecord] /\ \A d \in Section : trap[d].tag = FALSE
  <2> DEFINE b == Blank(At("none", "none"), NoSection)
             t == [tag |-> FALSE, epcc |-> At("none", "none"), saved |-> b]
  <2>1. b \in Regs /\ At("none", "none") \in Who \X Label
    BY BlankFacts, C31Facts, AtFacts DEF Who, Label
  <2> HIDE DEF b
  <2>2. t \in TrapRecord /\ t.tag = FALSE
    BY <2>1 DEF TrapRecord
  <2>3. trap = [d \in Section |-> t]
    BY <1>5 DEF b
  <2> HIDE DEF t
  <2> QED
    BY <2>2, <2>3
<1>11. TrapTypes
  <2>1. want \in [Section -> Seq([regs : Regs, cause : Cause])]
    BY <1>5
  <2>2. mcause \in Cause /\ traps \in 0 .. MaxTraps
    BY <1>5, NameFacts DEF Cause
  <2> QED
    BY <1>10, <2>1, <2>2 DEF TrapTypes
<1>12. Level0
  BY <1>1, <1>5, <1>9, <1>10 DEF Level0, Untrapped
<1> QED
  BY <1>7, <1>11, <1>12 DEF AInv, Levels

LEMMA AInvStep ==
    ASSUME Separate, Roomy, AInv, [Next]_vars
    PROVE  AInv'
<1>1. CASE Next
  BY <1>1, Level0Step, Level1Step, Level2Step, Level3Step, FaultedStops DEF AInv, Levels
<1>2. CASE UNCHANGED vars
  <2>1. Same /\ UNCHANGED <<regs, trap, mcause, traps, want, frames>>
    BY <1>2 DEF vars, Same
  <2>2. Kept' /\ TrapTypes'
    BY <2>1, SameKept DEF AInv, Kept, Types, TrapTypes
  <2>3. ASSUME NEW d \in Section PROVE /\ MainOK(trap[d].saved) => MainOK(trap[d].saved)'
                                       /\ \A c : Trapped(d, c) => Trapped(d, c)'
    <3>1. MainOK(trap[d].saved) => MainOK(trap[d].saved)'
      BY <2>1, Moves
    <3> QED
      BY <2>1, <3>1 DEF Trapped
  <2>4. MainOK(regs) => MainOK(regs)'
    <3>1. PICK r : r = regs
      OBVIOUS
    <3>2. MainOK(regs) => MainOK(r)
      BY <3>1
    <3>3. regs' = r
      BY <2>1, <3>1
    <3> QED
      BY <2>1, <3>2, <3>3, SameMain, InRegs
  <2>5. /\ HandlerRuns(regs) => HandlerRuns(regs)'
        /\ HandlerOK(regs) => HandlerOK(regs)'
        /\ \A d \in Section : HandlerRuns(trap[d].saved) => HandlerRuns(trap[d].saved)'
    BY <2>1 DEF HandlerOK, HandlerRuns, In, Same
  <2>6. \A S : Untrapped(S) => Untrapped(S)'
    BY <2>1 DEF Untrapped
  <2>7. \A d \in Section : (Invoking(d) => Invoking(d)') /\ (Isr(d) => Isr(d)')
    BY <2>1, <2>3 DEF Invoking, Isr
  <2>8. Level0 => Level0'
    BY <2>1, <2>4 DEF Level0, Untrapped
  <2>9. Level1 => Level1'
    BY <2>1, <2>3, <2>7 DEF Level1, Untrapped, Trapped
  <2>10. Level2 => Level2'
    BY <2>1, <2>5, <2>7 DEF Level2, Untrapped
  <2>11. Level3 => Level3'
    BY <2>1, <2>3, <2>5, <2>7 DEF Level3, Untrapped
  <2>12. Faulted => Faulted'
    BY <2>1 DEF Faulted
  <2> QED
    BY <2>2, <2>8, <2>9, <2>10, <2>11, <2>12 DEF AInv, Levels
<1> QED
  BY <1>1, <1>2

-----------------------------------------------------------------------------
(* The theorems.                                                           *)

(* The program is always at a label of the code. *)
LEMMA LabelFacts == AInv => regs.at[2] # "none"
<1> SUFFICES ASSUME AInv PROVE regs.at[2] # "none"
  OBVIOUS
<1>1. ASSUME MainOK(regs) PROVE regs.at[2] # "none"
  <2>1. MainIdle(regs) \/ MainBack(regs) => regs.at[2] # "none"
    BY AtFacts DEF MainIdle, MainBack, In
  <2>2. ASSUME NEW e \in Enclaves, Stage(regs, e) PROVE regs.at[2] # "none"
    <3>1. \E x : \E l \in Label \ {"none"} : In(regs, x, l)
      BY <2>2 DEF Stage, Loads, Sets, Begins, Calls, Asks, Answers, Returns, Resumes, Leaves, Label
    <3> QED
      BY <3>1, AtFacts DEF In
  <2> QED
    BY <1>1, <2>1, <2>2 DEF MainOK
<1>2. HandlerOK(regs) => regs.at[2] # "none"
  BY AtFacts DEF HandlerOK, HandlerRuns, In
<1>3. \A d \in Section : Isr(d) => regs.at[2] # "none"
  BY AtFacts DEF Isr
<1>4. Faulted => regs.at[2] # "none"
  BY AtFacts DEF Faulted
<1> QED
  BY <1>1, <1>2, <1>3, <1>4 DEF AInv, Levels, Level0, Level1, Level2, Level3

(* What the invariant says of stacks and results. *)
LEMMA AInvStacks == AInv => StackInSection
<1> SUFFICES ASSUME AInv PROVE StackInSection
  OBVIOUS
<1>1. /\ regs \in Regs /\ memory \in Memory /\ uses \in 0 .. MaxUses
      /\ mcause \in Cause /\ traps \in 0 .. MaxTraps /\ StackSlots \in Nat
  BY NameFacts DEF AInv, Kept, Types, TrapTypes
<1>2. /\ regs.at \in Who \X Label /\ regs.c31 \in C31 /\ regs.a7 \in {-1, 0, 1, 2}
      /\ regs.csp \in 0 .. StackSlots /\ memory.loaded \subseteq Enclaves
  BY <1>1 DEF Regs, Memory
<1>3. regs.at[1] \in Section \cup {"handler", "none"} /\ regs.at[2] \in Label \ {"none"}
  BY <1>2, LabelFacts DEF Who, Section
<1>4. regs.c31.of \in Section \cup {"none"} /\ regs.c31.sealed \in BOOLEAN
  BY <1>2 DEF C31
<1>5. regs.csp \in 0 .. StackSlots + 3 /\ regs.csp <= StackSlots
  BY <1>1, <1>2
<1>6. ASSUME NEW e \in Enclaves
      PROVE  /\ data[e].csp \in 0 .. StackSlots + 3 \cup {NoCsp}
             /\ data[e].sensor.enc \in Enclaves \cup {"none"}
             /\ data[e].buffer.nonce \in Nonces \cup {0}
             /\ data[e].csp # NoCsp => data[e].csp <= StackSlots
  <2>1. /\ data[e].csp \in (0 .. StackSlots) \cup {NoCsp} /\ data[e].sensor \in Sensor
        /\ data[e].buffer \in Buffer
    BY DEF AInv, Kept, Types, DataSection
  <2>2. data[e].sensor.enc \in Enclaves \cup {"none"} /\ data[e].buffer.nonce \in Nonces \cup {0}
    BY <2>1 DEF Sensor, Buffer
  <2> QED
    BY <1>1, <2>1, <2>2
<1>7. TypeOK
  <2>1. Label \ {"none"} = {"idle", "back", "isr", "fault", "error", "entry", "init", "exit",
                            "enclave_invoke", "return_entry", "return", "set_sensor_enclave",
                            "use_sensor", "resume", "read"}
    BY DEF Label
  <2>2. mcause \in {"none", "interrupt", "syscall"}
    BY <1>1 DEF Cause
  <2> QED
    BY <1>1, <1>2, <1>3, <1>4, <1>5, <1>6, <2>1, <2>2 DEF TypeOK
<1>8. StackAboveData
  BY <1>5, <1>6 DEF StackAboveData
<1> QED
  BY <1>7, <1>8 DEF StackInSection

LEMMA AInvResults == AInv => ResultIsReading
<1> SUFFICES ASSUME AInv, memory.ok
             PROVE  /\ memory.result = 2 * Reading
                    /\ \E r \in readings : r.by = data[r.to].sensor.enc
                    /\ \E u \in Enclaves : data[u].buffer.nonce = memory.nonce
  BY DEF ResultIsReading
<1>1. memory.result = 2 * Reading /\ \E u \in Enclaves : Reads(u)
  BY DEF AInv, Kept, Accepted
<1>2. PICK u \in Enclaves : Reads(u)
  BY <1>1
<1>3. PICK r \in readings : r = [by |-> data[u].sensor.enc, to |-> u]
  BY <1>2 DEF Reads
<1>4. r.by = data[r.to].sensor.enc
  BY <1>3
<1> QED
  BY <1>1, <1>2, <1>4 DEF Reads

(* Where the registers come from at a return of the trap handler. *)
ReturnsAsInterrupted ==
    regs.at = At("handler", "isr") /\ regs'.at[1] \in Section /\ frames' = frames =>
        LET was == Head(want[regs.c31.of]) IN
        IF was.cause = "syscall" THEN regs' = [was.regs EXCEPT !.a0 = SyscallResult]
                                 ELSE regs' = was.regs

LEMMA AInvResumes ==
    ASSUME AInv, Next
    PROVE  ReturnsAsInterrupted
<1> SUFFICES ASSUME regs.at = At("handler", "isr"), frames' = frames
             PROVE  LET was == Head(want[regs.c31.of]) IN
                    IF was.cause = "syscall" THEN regs' = [was.regs EXCEPT !.a0 = SyscallResult]
                                             ELSE regs' = was.regs
  BY DEF ReturnsAsInterrupted
<1>1. ~ MainOK(regs)
  <2>1. ~ MainIdle(regs) /\ ~ MainBack(regs)
    BY AtFacts DEF MainIdle, MainBack, In
  <2>2. ASSUME NEW e \in Enclaves, Stage(regs, e) PROVE FALSE
    <3>1. \E x : \E l \in Label \ {"isr"} : In(regs, x, l)
      BY <2>2 DEF Stage, Loads, Sets, Begins, Calls, Asks, Answers, Returns, Resumes, Leaves, Label
    <3> QED
      BY <3>1, AtFacts DEF In
  <2> QED
    BY <2>1, <2>2 DEF MainOK
<1>2. ~ HandlerOK(regs) /\ ~ Faulted
  BY AtFacts DEF HandlerOK, HandlerRuns, In, Faulted
<1>3. \E d \in Section : Isr(d) /\ Trapped(d, mcause)
  BY <1>1, <1>2 DEF AInv, Levels, Level0, Level1, Level2, Level3, Invoking
<1>4. PICK d \in Section : Isr(d) /\ Trapped(d, mcause)
  BY <1>3
<1>5. Return
  <2>1. ASSUME NEW u \in Enclaves, HandlerInvokes(u) PROVE FALSE
    <3>1. frames = <<>> /\ frames' = <<regs.c31>>
      BY <2>1 DEF HandlerInvokes
    <3>2. <<regs.c31>> # <<>>
      BY OneFacts DEF AInv, Kept, Types, Regs
    <3> QED
      BY <3>1, <3>2
  <2> QED
    BY <1>4, <2>1, IsrSteps
<1>6. /\ mcause # "syscall" => regs' = trap[d].saved
      /\ mcause = "syscall" => regs' = [trap[d].saved EXCEPT !.a0 = SyscallResult]
  BY <1>4, <1>5, ReturnFacts DEF AInv
<1>7. regs.c31.of = d
  BY <1>4, C31Facts DEF Isr
<1> DEFINE w == [regs |-> trap[d].saved, cause |-> mcause]
<1>8. Head(want[d]) = w
  <2>1. want[d] = <<w>>
    BY <1>4 DEF Trapped
  <2>2. w \in {w}
    OBVIOUS
  <2> HIDE DEF w
  <2> QED
    BY <2>1, <2>2, OneFacts
<1>9. w.regs = trap[d].saved /\ w.cause = mcause
  OBVIOUS
<1> HIDE DEF w
<1> QED
  BY <1>6, <1>7, <1>8, <1>9

(* The invariant holds in every run of the attestation software: main, the
   enclaves it invokes, and traps and handlers nested in them. *)
THEOREM AttestationInvariant ==
    ASSUME Separate, Roomy PROVE Spec => []AInv
<1>1. Init => AInv
  BY AInvInit
<1>2. AInv /\ [Next]_vars => AInv'
  BY AInvStep
<1> QED
  BY <1>1, <1>2, PTL DEF Spec

(* Registers and data sections hold only what the code puts there, and the
   stacks stay above the data (enclave_entry.S), however often main uses the
   sensor and wherever traps come in between. *)
THEOREM StacksStayInSection ==
    ASSUME Separate, Roomy PROVE Spec => []StackInSection
  BY AttestationInvariant, AInvStacks, PTL

(* A result main accepts is a reading the attested sensor made for this call
   of use_sensor (user_enclave.S, sensor_enclave.S), doubled. *)
THEOREM AcceptedResultIsReading ==
    ASSUME Separate, Roomy PROVE Spec => []ResultIsReading
  BY AttestationInvariant, AInvResults, PTL

(* A trap is invisible to the code it interrupts (trusted_traps.S), for any
   number of traps, handlers that invoke enclaves and traps of these. *)
THEOREM TrapsAreInvisible ==
    ASSUME Separate, Roomy PROVE Spec => ResumesAsInterrupted
<1>1. AInv /\ [Next]_vars => [ReturnsAsInterrupted]_vars
  BY AInvResumes
<1> QED
  BY <1>1, AttestationInvariant, PTL DEF Spec, ResumesAsInterrupted, ReturnsAsInterrupted

-----------------------------------------------------------------------------
(* The sensors, whatever the constants are: only set_sensor_enclave stores *)
(* one, and it compares the seals and the identity.                        *)

Fields == {"csp", "sensor", "buffer", "answer", "stack"}
Sections(d) == DOMAIN d = Enclaves /\ \A e \in Enclaves : DOMAIN d[e] = Fields
SameSensors(d, f) == Sections(d) => /\ Sections(f)
                                    /\ \A e \in Enclaves : f[e].sensor = d[e].sensor

LEMMA FieldFacts ==
    ASSUME NEW d, NEW u, NEW v
    PROVE  /\ SameSensors(d, [d EXCEPT ![u].csp = v])
           /\ SameSensors(d, [d EXCEPT ![u].buffer = v])
           /\ SameSensors(d, [d EXCEPT ![u].answer = v])
           /\ SameSensors(d, [d EXCEPT ![u].stack = v])
<1>1. SameSensors(d, [d EXCEPT ![u].csp = v])
  BY Zenon DEF Sections, SameSensors, Fields
<1>2. SameSensors(d, [d EXCEPT ![u].buffer = v])
  BY Zenon DEF Sections, SameSensors, Fields
<1>3. SameSensors(d, [d EXCEPT ![u].answer = v])
  BY Zenon DEF Sections, SameSensors, Fields
<1>4. SameSensors(d, [d EXCEPT ![u].stack = v])
  BY Zenon DEF Sections, SameSensors, Fields
<1> QED
  BY <1>1, <1>2, <1>3, <1>4

(* set_sensor_enclave stores v in the section of u. *)
Stores(d, u, v, f) == f = [d EXCEPT ![u].sensor = v]

LEMMA SensorFacts ==
    ASSUME NEW d, Sections(d), NEW u, NEW v, NEW f, Stores(d, u, v, f)
    PROVE  /\ Sections(f)
           /\ \A e \in Enclaves : f[e].sensor = IF e = u THEN v ELSE d[e].sensor
  BY DEF Sections, Fields, Stores

(* Updates of the stack and of the buffer are updates of the section. *)
LEMMA DeepFacts ==
    ASSUME NEW d, NEW u, NEW i, NEW v
    PROVE  /\ SameSensors(d, [d EXCEPT ![u].stack[i] = v])
           /\ SameSensors(d, [d EXCEPT ![u].buffer.nonce = v])
           /\ SameSensors(d, [d EXCEPT ![u].buffer.result = v])
<1>1. SameSensors(d, [d EXCEPT ![u].stack[i] = v])
  <2> DEFINE k == [d[u].stack EXCEPT ![i] = v]
  <2>1. [d EXCEPT ![u].stack[i] = v] = [d EXCEPT ![u].stack = k]
    BY Zenon
  <2> HIDE DEF k
  <2> QED
    BY <2>1, FieldFacts, Zenon
<1>2. SameSensors(d, [d EXCEPT ![u].buffer.nonce = v])
  <2> DEFINE k == [d[u].buffer EXCEPT !.nonce = v]
  <2>1. [d EXCEPT ![u].buffer.nonce = v] = [d EXCEPT ![u].buffer = k]
    BY Zenon
  <2> HIDE DEF k
  <2> QED
    BY <2>1, FieldFacts, Zenon
<1>3. SameSensors(d, [d EXCEPT ![u].buffer.result = v])
  <2> DEFINE k == [d[u].buffer EXCEPT !.result = v]
  <2>1. [d EXCEPT ![u].buffer.result = v] = [d EXCEPT ![u].buffer = k]
    BY Zenon
  <2> HIDE DEF k
  <2> QED
    BY <2>1, FieldFacts, Zenon
<1> QED
  BY <1>1, <1>2, <1>3

LEMMA SameTrans ==
    ASSUME NEW d, NEW f, NEW g, SameSensors(d, f), SameSensors(f, g)
    PROVE  SameSensors(d, g)
  BY DEF SameSensors

LEMMA OnlySetsSensors ==
    ASSUME Next
    PROVE  SetSensorEnclave \/ SameSensors(data, data')
<1>1. SameSensors(data, data)
  BY DEF SameSensors
<1>2. CASE EnclaveInit
  BY <1>2, FieldFacts, Zenon DEF EnclaveInit
<1>3. CASE EnclaveReturnEntry
  BY <1>3, FieldFacts, Zenon DEF EnclaveReturnEntry
<1>4. CASE MorelloUseSensorResumes
  BY <1>4, FieldFacts, Zenon DEF MorelloUseSensorResumes
<1>5. CASE EnclaveInvoke
  <2> DEFINE sp == regs.csp + 2
             f == [data EXCEPT ![Here].csp = sp]
             g == [f EXCEPT ![Here].stack[sp - 1] = Caller(regs.ra)]
             h == [g EXCEPT ![Here].stack[sp] = GoOn]
  <2>1. data' = h
    BY <1>5, Zenon DEF EnclaveInvoke
  <2>2. SameSensors(data, f)
    BY FieldFacts, Zenon
  <2> HIDE DEF f
  <2>3. SameSensors(f, g)
    BY DeepFacts, Zenon
  <2> HIDE DEF g
  <2>4. SameSensors(g, h)
    BY DeepFacts, Zenon
  <2> HIDE DEF h
  <2> QED
    BY <2>1, <2>2, <2>3, <2>4, SameTrans
<1>6. CASE MorelloEnclaveInvoke
  <2> DEFINE sp == regs.csp + 1
             f == [data EXCEPT ![Here].csp = sp]
             h == [f EXCEPT ![Here].stack[sp] = GoOn]
  <2>1. data' = h
    BY <1>6, Zenon DEF MorelloEnclaveInvoke
  <2>2. SameSensors(data, f)
    BY FieldFacts, Zenon
  <2> HIDE DEF f
  <2>3. SameSensors(f, h)
    BY DeepFacts, Zenon
  <2> HIDE DEF h
  <2> QED
    BY <2>1, <2>2, <2>3, SameTrans
<1>7. CASE UseSensorCalls
  <2> DEFINE sp == regs.csp + 1
             f == [data EXCEPT ![Here].stack[sp] = regs.a0]
             h == [f EXCEPT ![Here].buffer.nonce = memory.nonce]
  <2>1. data' = h
    BY <1>7, Zenon DEF UseSensorCalls
  <2>2. SameSensors(data, f)
    BY DeepFacts, Zenon
  <2> HIDE DEF f
  <2>3. SameSensors(f, h)
    BY DeepFacts, Zenon
  <2> HIDE DEF h
  <2> QED
    BY <2>1, <2>2, <2>3, SameTrans
<1>8. CASE MorelloUseSensor
  <2> DEFINE sp == regs.csp + 2
             f == [data EXCEPT ![Here].stack[sp - 1] = regs.a0]
             g == [f EXCEPT ![Here].stack[sp] = Caller(regs.ra)]
             h == [g EXCEPT ![Here].buffer.nonce = memory.nonce]
  <2>1. data' = h
    BY <1>8, Zenon DEF MorelloUseSensor
  <2>2. SameSensors(data, f)
    BY DeepFacts, Zenon
  <2> HIDE DEF f
  <2>3. SameSensors(f, g)
    BY DeepFacts, Zenon
  <2> HIDE DEF g
  <2>4. SameSensors(g, h)
    BY DeepFacts, Zenon
  <2> HIDE DEF h
  <2> QED
    BY <2>1, <2>2, <2>3, <2>4, SameTrans
<1>9. CASE Read
  <2> DEFINE a == [Null EXCEPT !.kind = "buffer", !.enc = regs.ra]
             f == [data EXCEPT ![regs.ra].buffer.result = Reading]
             h == [f EXCEPT ![Here].answer = a]
  <2>1. data' = h
    BY <1>9, Zenon DEF Read
  <2>2. SameSensors(data, f)
    BY DeepFacts, Zenon
  <2> HIDE DEF f, a
  <2>3. SameSensors(f, h)
    BY FieldFacts, Zenon
  <2> HIDE DEF h
  <2> QED
    BY <2>1, <2>2, <2>3, SameTrans
<1>10. CASE EnclaveEntry \/ EnclaveExit \/ EnclaveReturn \/ MorelloReturnEntry \/ UseSensorResumes
  BY <1>1, <1>10 DEF EnclaveEntry, EnclaveExit, EnclaveReturn, MorelloReturnEntry, UseSensorResumes
<1>11. CASE MainStep \/ InvokeReturns
  BY <1>1, <1>11 DEF MainStep, LoadEnclave, SetSensor, UseSensor, InvokeReturns
<1>12. CASE HandlerStep \/ Trap
  BY <1>1, <1>12 DEF HandlerStep, Return, HandlerInvokes, HandlerResumes, Trap
<1> QED
  BY <1>2, <1>3, <1>4, <1>5, <1>6, <1>7, <1>8, <1>9, <1>10, <1>11, <1>12 DEF Next, EnclaveStep

(* The sensor a user enclave asks for readings is one enclave whose identity
   was checked (set_sensor_enclave), whatever structs main hands over. *)
THEOREM SensorIsAttested == Spec => []AttestedSensor
<1> DEFINE Inv == Sections(data) /\ AttestedSensor
<1>1. Init => Inv
  <2> SUFFICES ASSUME Init PROVE Inv
    OBVIOUS
  <2> DEFINE s == [csp |-> NoCsp, sensor |-> NoEnclave, buffer |-> [nonce |-> 0, result |-> 0],
                   answer |-> Null, stack |-> [i \in 1 .. StackSlots + 3 |-> Null]]
  <2>1. data = [e \in Enclaves |-> s]
    BY DEF Init
  <2>2. DOMAIN s = Fields /\ s.sensor = NoEnclave
    BY Zenon DEF Fields
  <2> HIDE DEF s
  <2> QED
    BY <2>1, <2>2 DEF Sections, AttestedSensor
<1>2. Inv /\ [Next]_vars => Inv'
  <2> SUFFICES ASSUME Inv, [Next]_vars PROVE Inv'
    OBVIOUS
  <2>1. CASE SameSensors(data, data')
    <3>1. Sections(data') /\ \A e \in Enclaves : data'[e].sensor = data[e].sensor
      BY <2>1 DEF SameSensors
    <3> QED
      BY <3>1 DEF AttestedSensor, Sections
  <2>2. CASE SetSensorEnclave
    <3> DEFINE t == [enc |-> regs.a0.enc, sign |-> regs.a0.sign]
    <3>1. CASE ~ Attested(regs.a0.enc, regs.a0.sign)
      BY <2>2, <3>1 DEF SetSensorEnclave, AttestedSensor, Sections
    <3>2. CASE Attested(regs.a0.enc, regs.a0.sign)
      <4>1. data' = [data EXCEPT ![Here].sensor = t]
        BY <2>2, <3>2 DEF SetSensorEnclave
      <4>2. Identity[t.enc] = "sensor" /\ t.sign = t.enc
        BY <3>2 DEF Attested
      <4> HIDE DEF t
      <4>3. Sections(data') /\ \A e \in Enclaves :
                data'[e].sensor = IF e = Here THEN t ELSE data[e].sensor
        <5>1. Sections(data) /\ Stores(data, Here, t, data')
          BY <4>1 DEF Stores
        <5> QED
          BY <5>1, SensorFacts
      <4> QED
        BY <4>2, <4>3 DEF AttestedSensor, Sections
    <3> QED
      BY <3>1, <3>2
  <2>3. CASE UNCHANGED vars
    BY <2>3 DEF vars, AttestedSensor, Sections
  <2> QED
    BY <2>1, <2>2, <2>3, OnlySetsSensors
<1>3. Inv => AttestedSensor
  OBVIOUS
<1> QED
  BY <1>1, <1>2, <1>3, PTL DEF Spec
=============================================================================
