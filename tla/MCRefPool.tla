----------------------------- MODULE MCRefPool -----------------------------
(* Small instances of RefPool for TLC: four to six calls on two to four    *)
(* keys, named after the key they ask for (a1, a2, a3: ka and so on).      *)
EXTENDS RefPool, TLC

CONSTANTS a1, a2, a3, b1, y1, z1, ka, kb, ky, kz, d1, d2

SixCalls   == {a1, a2, a3, b1, y1, z1}
FiveCalls  == {a1, a2, b1, y1, z1}
FourCalls  == {a1, a2, b1, z1}
GhostCalls == {a1, a2, a3, b1}

FourKeys  == {ka, kb, ky, kz}
ThreeKeys == {ka, kb, kz}
GhostKeys == {ka, kb}

KeyOfSix   == a1 :> ka @@ a2 :> ka @@ a3 :> ka @@ b1 :> kb @@ y1 :> ky @@ z1 :> kz
KeyOfFive  == [c \in FiveCalls |-> KeyOfSix[c]]
KeyOfFour  == [c \in FourCalls |-> KeyOfSix[c]]
KeyOfGhost == a1 :> ka @@ a2 :> ka @@ a3 :> ka @@ b1 :> kb

(* Renamings that respect KeyOf: the calls of a key may be exchanged, and  *)
(* keys with the same number of calls, their calls along with them.        *)
Swap(x, y) == {[u \in {x, y} |-> u], [u \in {x, y} |-> IF u = x THEN y ELSE x]}
Single == b1 :> kb @@ y1 :> ky @@ z1 :> kz
WithKeys(p) == p @@ [k \in {kb, ky, kz} |->
                      Single[p[CHOOSE c \in DOMAIN Single : Single[c] = k]]]

SymmetryGhost == {f @@ g : f \in Permutations({a1, a2, a3}), g \in Swap(d1, d2)}
SymmetryFive ==
  {WithKeys(p) @@ f @@ g :
    p \in Permutations(DOMAIN Single), f \in Swap(a1, a2), g \in Swap(d1, d2)}
SymmetrySix ==
  {WithKeys(p) @@ f : p \in Permutations(DOMAIN Single), f \in Permutations({a1, a2, a3})}
=============================================================================
