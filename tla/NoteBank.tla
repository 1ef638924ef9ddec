------------------------------- MODULE NoteBank -------------------------------
(***************************************************************************)
(* What the ledger promises the holders of its money: coin comes into being *)
(* only by the coinbase and within the cap, it is in a balance or in a note *)
(* that can be opened once, and it leaves only as a burned fee.             *)
(***************************************************************************)
EXTENDS Integers

CONSTANTS
    Note,         \* note commitments
    Worth(_),     \* the sum of a set of notes
    Allotment,    \* the coin there is at genesis
    Emission,     \* the most a block may issue
    Cap           \* the most there may ever be

VARIABLES
    unspent, gone,  \* notes that can be opened, notes that have been
    native,         \* what the balances hold together
    minted, burned  \* all coin ever issued and destroyed

vars == <<unspent, gone, native, minted, burned>>

Balanced == native + Worth(unspent) + burned = minted

Init ==
    /\ unspent = {} /\ gone = {}
    /\ minted = Allotment /\ native = Allotment /\ burned = 0

\* A block: the notes it opens are gone for good, the notes it makes are new.
Block ==
    /\ unspent' \subseteq Note /\ gone' \subseteq gone \union unspent
    /\ gone \subseteq gone' /\ unspent \subseteq unspent' \union gone'
    /\ unspent' \intersect gone' = {}
    /\ minted <= minted' /\ minted' <= minted + Emission
    /\ burned <= burned' /\ minted' - burned' <= Cap
    /\ Balanced'

Spec == Init /\ [][Block]_vars
=============================================================================
