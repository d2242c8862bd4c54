---------------------------- MODULE MCBookIndex ----------------------------
(* Small texts for BookIndex: some of the same size, two of these with the  *)
(* same samples but other pages (prose and its draft), and what a later     *)
(* firmware makes of them.                                                  *)
EXTENDS BookIndex

CONSTANTS card1, card2, prose, draft, verse, blank, broken

MCSize == [c \in Contents |-> IF c = blank THEN 0 ELSE 2]

MCSample == [c \in Contents |-> IF c = draft THEN prose ELSE c]

MCPages ==
    <<[c \in Contents |-> IF c \in {prose, broken} THEN <<0, 1>> ELSE <<0>>],
      [c \in Contents |-> IF c \in {draft, verse} THEN <<0, 1>> ELSE <<0>>]>>

\* One page each, for runs that are about the cards.
MCSlips == <<[c \in Contents |-> <<0>>]>>
=============================================================================
