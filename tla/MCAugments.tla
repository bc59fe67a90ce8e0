----------------------------- MODULE MCAugments -----------------------------
(***************************************************************************)
(* Instances of Augments for TLC.                                          *)
(***************************************************************************)
EXTENDS Augments

Names == {"z", "t", "f", "h", "c", "x", "y", "l"}

Own1 == (<<"t">> :> "container") @@ (<<"t", "f">> :> "leaf")
Own2 == (<<"t">> :> "container") @@ (<<"t", "h">> :> "choice")
          @@ (<<"t", "h", "c">> :> "case") @@ (<<"t", "h", "c", "l">> :> "leaf")

One(n, k) == <<n>> :> k
Two(n, k, m, j) == One(n, k) @@ (<<n, m>> :> j)

Augment(t, c) == [target |-> t, content |-> c]

Pool ==
  {Augment(<<"t">>, c) :
     c \in {One("x", "container"), One("x", "leaf"), Two("x", "container", "y", "container"),
            One("h", "choice"), Two("h", "choice", "x", "case"), One("x", "case")}}
  \cup
  {Augment(<<"t", "x">>, c) :
     c \in {One("y", "container"), One("l", "leaf"), One("y", "case"), One("y", "choice")}}
  \cup
  {Augment(<<"t", "x", "y">>, One("l", "leaf")), Augment(<<"t", "x", "y">>, One("x", "case")),
   Augment(<<"t", "f">>, One("l", "leaf")), Augment(<<"z", "x">>, One("l", "leaf"))}
  \cup
  {Augment(<<"t", "h">>, c) :
     c \in {One("x", "container"), One("x", "case"), One("l", "leaf"), One("y", "choice")}}
  \cup
  {Augment(<<"t", "h", "x">>, One("l", "leaf")), Augment(<<"t", "h", "x">>, One("y", "choice")),
   Augment(<<"t", "h", "x", "x">>, One("l", "leaf"))}

Empty == [p \in {} |-> "leaf"]

(* Three augments of a module, or two of a submodule and one of a module.  *)
Alone == {[inner |-> Empty, own |-> o, augment |-> <<a, b, c>>, sub |-> 0] :
            o \in {Own1, Own2}, a \in Pool, b \in Pool, c \in Pool}

Inner == {x \in Pool : x.target[1] # "z"}
Split == {[inner |-> o, own |-> One("z", "container"), augment |-> <<a, b, c>>, sub |-> 2] :
            o \in {Own1, Own2}, a \in Inner, b \in Inner, c \in Pool}

AllScenarios == Alone \cup Split
=============================================================================
