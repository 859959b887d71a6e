----------------------------- MODULE MCWireCodec -----------------------------
(* WireCodec with bytes of one bit: lengths fit below eight.  The bodies are *)
(* empty, a value, a list of none, two or six items, compressed, broken, and *)
(* one byte too long.                                                        *)
EXTENDS WireCodec, TLC

P(cmd, seq, opcode, flag, body) ==
  [ver |-> 1, cmd |-> cmd, seq |-> seq, opcode |-> opcode, flag |-> flag, body |-> body]

SamplePackets ==
  {P(0, 1, 2, 0, <<>>), P(1, 2, 3, 0, <<0, 1>>), P(0, 3, 1, 0, <<1>>),
   P(2, 4, 1, 0, <<1, 0, 1>>), P(0, 5, 3, 0, <<1, 1, 0, 1, 0, 0, 1>>),
   P(1, 6, 2, 1, <<1, 0, 1>>), P(0, 7, 2, 1, <<0, 1>>), P(0, 8, 1, 1, <<1>>),
   P(3, 9, 3, 0, <<0, 1, 1, 0, 1, 0, 0, 1>>)}
=============================================================================
