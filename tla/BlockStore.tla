----------------------------- MODULE BlockStore -----------------------------
(***************************************************************************)
(* What the engine promises a caller: a device of blocks, without a cache. *)
(* A request is either refused at once or accepted; an accepted read       *)
(* returns the content of the block it names at one moment between call    *)
(* and return; an accepted write that returns "ok" has replaced that       *)
(* content exactly once, and a request that returns an error has changed   *)
(* nothing.                                                                *)
(***************************************************************************)
EXTENDS Blocks

CONSTANTS Clients, Errors

VARIABLES store,    \* the content of each block
          req,      \* the request of each client
          out,      \* what it returned, or "pending"
          applied   \* the clients whose pending write has taken effect

storeVars == <<store, req, out, applied>>

StoreInit == /\ store = [l \in Lbas |-> Block(l, 0)]
             /\ req = [c \in Clients |-> [op |-> "none", lba |-> NoLba, ver |-> 0]]
             /\ out = [c \in Clients |-> [status |-> "none", block |-> Zero]]
             /\ applied = {}

Reply(c, status, block) ==
    out' = [out EXCEPT ![c] = [status |-> status, block |-> block]]

Idle(c) == out[c].status # "pending"

Refuse(c) == /\ Idle(c)
             /\ \E op \in {"read", "write"}, l \in Lbas \cup {MaxLba} :
                  req' = [req EXCEPT ![c] = [op |-> op, lba |-> l, ver |-> 0]]
             /\ \E e \in Errors : Reply(c, e, Zero)
             /\ UNCHANGED <<store, applied>>

Accept(c) == /\ Idle(c)
             /\ \E op \in {"read", "write"}, l \in Lbas, n \in 0 .. MaxWrites :
                  req' = [req EXCEPT ![c] = [op |-> op, lba |-> l, ver |-> n]]
             /\ Reply(c, "pending", Zero)
             /\ UNCHANGED <<store, applied>>

Read(c) == /\ ~Idle(c)
           /\ req[c].op = "read"
           /\ Reply(c, "ok", store[req[c].lba])
           /\ UNCHANGED <<store, req, applied>>

Apply(c) == /\ ~Idle(c)
            /\ req[c].op = "write"
            /\ c \notin applied
            /\ store' = [store EXCEPT ![req[c].lba] = Block(req[c].lba, req[c].ver)]
            /\ applied' = applied \cup {c}
            /\ UNCHANGED <<req, out>>

Ack(c) == /\ c \in applied
          /\ Reply(c, "ok", Zero)
          /\ applied' = applied \ {c}
          /\ UNCHANGED <<store, req>>

Fail(c) == /\ ~Idle(c)
           /\ c \notin applied
           /\ \E e \in Errors : Reply(c, e, Zero)
           /\ UNCHANGED <<store, req, applied>>

StoreNext == \E c \in Clients : \/ Refuse(c) \/ Accept(c) \/ Read(c)
                                \/ Apply(c) \/ Ack(c) \/ Fail(c)

StoreSpec == StoreInit /\ [][StoreNext]_storeVars
=============================================================================
