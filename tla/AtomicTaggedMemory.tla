------------------------- MODULE AtomicTaggedMemory -------------------------
(***************************************************************************)
(* What the tagged memory of the Proteus core promises its one client: the *)
(* accesses take effect one at a time, a capability is stored and loaded   *)
(* whole, and the tag of a granule is set exactly as long as nothing but   *)
(* the capability that set it has been written there.                      *)
(***************************************************************************)
EXTENDS TaggedWords

VARIABLES
    words,     \* contents of the memory
    tags,      \* the tags of the granules in memory
    request,   \* what the client asks for
    performed, \* a capability store has taken effect and is not acknowledged
    answer     \* what the load returned that was the last request

vars == <<words, tags, request, performed, answer>>

Init ==
    /\ words = [a \in Word |-> 0] /\ tags = [g \in InMemory |-> FALSE]
    /\ request = Idle /\ performed = FALSE /\ answer = <<>>

Issue ==
    /\ request = Idle /\ request' \in DataOp \cup CapOp /\ answer' = <<>>
    /\ UNCHANGED <<words, tags, performed>>

(* The instruction that loads is dropped. *)
Abandon ==
    /\ request.op = "load" /\ request' = Idle
    /\ UNCHANGED <<words, tags, performed, answer>>

Load ==
    /\ request.op = "load" /\ request' = Idle
    /\ answer' = <<words[request.address]>>
    /\ UNCHANGED <<words, tags, performed>>

Store ==
    /\ request.op = "store" /\ request' = Idle
    /\ words' = [words EXCEPT ![request.address] = request.data]
    /\ tags' = WithTag(tags, granuleOf(request.address), FALSE)
    /\ UNCHANGED <<performed, answer>>

LoadCap ==
    /\ request.op = "loadcap" /\ request' = Idle
    /\ \E t \in BOOLEAN :
         /\ request.granule \in InMemory => t = tags[request.granule]
         /\ answer' = <<CapAt(words, request.granule), t>>
    /\ UNCHANGED <<words, tags, performed>>

StoreCap ==
    /\ request.op = "storecap" /\ ~performed /\ performed' = TRUE
    /\ words' = WithCap(words, request.granule, request.cap)
    /\ tags' = WithTag(tags, request.granule, request.tag)
    /\ UNCHANGED <<request, answer>>

StoreCapDone ==
    /\ request.op = "storecap" /\ performed /\ performed' = FALSE /\ request' = Idle
    /\ UNCHANGED <<words, tags, answer>>

Next == Issue \/ Abandon \/ Load \/ Store \/ LoadCap \/ StoreCap \/ StoreCapDone

Spec == Init /\ [][Next]_vars
=============================================================================
