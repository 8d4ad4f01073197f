--------------------------- MODULE MemBusControl ---------------------------
(***************************************************************************)
(* The data bus controller (MemBus.scala, MemBusControl) as a function of  *)
(* its register currentCmd: what it puts on the bus, what it answers its   *)
(* client, and currentCmd after the cycle.  A request is what the client   *)
(* asks for in the cycle; cmdReady and rspValid are the bus's lines.       *)
(***************************************************************************)

NoRequest == [op |-> "none", address |-> 0, wdata |-> 0]
ReadAt(a) == [op |-> "read", address |-> a, wdata |-> 0]
WriteAt(a, d) == [op |-> "write", address |-> a, wdata |-> d]

NoCmd == [valid |-> FALSE, ready |-> FALSE, cmd |-> NoRequest]

isIssued(c) == c.valid \/ c.ready

(* The request goes on the bus in this cycle. *)
issuedThisCycle(c, req) == req.op # "none" /\ ~isIssued(c)

(* bus.cmd: a new request, or the buffered one until it is accepted. *)
busValid(c, req) == issuedThisCycle(c, req) \/ c.valid
busCmd(c, req) == IF issuedThisCycle(c, req) THEN req ELSE c.cmd

readValid(c, req, rspValid) ==
    /\ req.op = "read" /\ rspValid
    /\ \/ issuedThisCycle(c, req)
       \/ c.cmd.address = req.address /\ c.cmd.op # "write"

accepted(c, req, cmdReady) ==
    /\ req.op = "write" /\ cmdReady
    /\ \/ issuedThisCycle(c, req)
       \/ c.cmd.address = req.address /\ c.cmd.op = "write"

(* Mutant: a response clears currentCmd only if the client still asks. *)
CmdNextAsked(c, req, cmdReady, rspValid) ==
    IF req.op # "none" /\ rspValid THEN NoCmd
    ELSE IF issuedThisCycle(c, req) THEN [valid |-> ~cmdReady, ready |-> cmdReady, cmd |-> req]
    ELSE [c EXCEPT !.valid = @ /\ ~cmdReady, !.ready = @ \/ (c.valid /\ cmdReady)]

(* currentCmd after the cycle.  A write is done once the bus takes a
   command, a read once a response comes; what cmd holds after that is not
   used. *)
CmdNext(c, req, cmdReady, rspValid) ==
    LET next(v, r) == IF v \/ r THEN [valid |-> v, ready |-> r, cmd |-> busCmd(c, req)]
                      ELSE NoCmd
    IN  CASE rspValid /\ ~issuedThisCycle(c, req) -> next(FALSE, FALSE)
          [] rspValid /\ issuedThisCycle(c, req) ->
               IF req.op = "read" \/ cmdReady THEN next(FALSE, FALSE) ELSE next(TRUE, FALSE)
          [] ~rspValid /\ req.op = "write" /\ cmdReady -> next(FALSE, FALSE)
          [] ~rspValid /\ issuedThisCycle(c, req) /\ ~(req.op = "write" /\ cmdReady) ->
               next(~cmdReady, cmdReady)
          [] OTHER -> IF c.valid /\ cmdReady THEN next(FALSE, TRUE) ELSE c
=============================================================================
