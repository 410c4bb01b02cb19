------------------------------- MODULE Blocks -------------------------------
(***************************************************************************)
(* Block addresses and block contents, shared by every component.          *)
(*                                                                         *)
(* The engine moves whole blocks of block_size bytes and never looks       *)
(* inside one, so the content of a block is the pair <<lba, n>>: the n-th  *)
(* payload a caller handed to write() for that lba, with <<lba, 0>> what   *)
(* the device held when it was opened.  Two more contents can be seen:     *)
(* Zero, the zero-filled memory of a fresh pool, and Torn, a block of      *)
(* which only a part has been copied.                                      *)
(***************************************************************************)
EXTENDS Integers

CONSTANTS MaxLba,     \* DeviceInfo::max_lba: blocks on the device
          MaxWrites   \* bound: payloads a model may write to one lba

ASSUME BlocksAssumption == /\ MaxLba \in Nat \ {0}
                           /\ MaxWrites \in Nat

\* The addresses validate_lba accepts.
Lbas == 0 .. (MaxLba - 1)

\* Stands for "no address" where the code has no value yet.
NoLba == -1

Block(l, n) == <<l, n>>

Zero == Block(NoLba, 0)
Torn == Block(NoLba, 1)

Contents == (Lbas \X (0 .. MaxWrites)) \cup {Zero, Torn}
=============================================================================
