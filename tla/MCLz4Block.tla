---------------------------- MODULE MCLz4Block ------------------------------
(***************************************************************************)
(* Lz4Block with bytes of two bits: literal runs and copies below, at and  *)
(* beyond a half token, in blocks of up to three sequences, whole and cut  *)
(* at every byte, and every string of up to six bytes.                     *)
(***************************************************************************)
EXTENDS Lz4Block

Copies == [lits : {<<>>, <<0>>, <<1, 2>>}, offset : {1, 2}, match : {4, 5, 8}]
Finals == [lits : {<<>>, <<3>>, <<0, 1, 3, 1, 2>>}, offset : {0}, match : {0}]

MCSources ==
    {s \in UNION {{<<f>> : f \in Finals}, {<<c, f>> : c \in Copies, f \in Finals},
                  {<<c, d, f>> : c \in Copies, d \in Copies, f \in Finals}} : WellFormed(s)}

MCArbitrary == UNION {[1..n -> 0..3] : n \in 0..6}
=============================================================================
