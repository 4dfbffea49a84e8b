---------------------------- MODULE VaultTransfer ----------------------------
(***************************************************************************)
(* What a transfer promises, whatever happens to the bytes: bundles are     *)
(* built of items under a passphrase; at most one of them is unlocked, with *)
(* its own passphrase, and stays so until it is locked or another one is    *)
(* unlocked; what is delivered is an item of the unlocked bundle.  Any call *)
(* may be refused, and then changes nothing.                                *)
(***************************************************************************)
EXTENDS Sequences

CONSTANTS Items,         \* records with id and plaintext
          Passphrases

VARIABLES built,         \* the bundles, in the order they were built
          unlocked,      \* the number of the unlocked one, if any, in a set
          outcome        \* of the last call

Nothing == [did |-> "nothing"]

Init == built = <<>> /\ unlocked = {} /\ outcome = Nothing

Build(passphrase, items) ==
    /\ built' = Append(built, [passphrase |-> passphrase, items |-> items])
    /\ outcome' = Nothing
    /\ UNCHANGED unlocked

Unlock(passphrase, b) ==
    /\ built[b].passphrase = passphrase
    /\ unlocked' = {b}
    /\ outcome' = [did |-> "unlock", passphrase |-> passphrase]
    /\ UNCHANGED built

Deliver(b, item) ==
    /\ unlocked = {b} /\ item \in built[b].items
    /\ outcome' = [did |-> "decrypt", id |-> item.id, plaintext |-> item.plaintext]
    /\ UNCHANGED <<built, unlocked>>

Lock ==
    /\ unlocked' = {} /\ outcome' = [did |-> "lock"]
    /\ UNCHANGED built

Refuse == outcome' = Nothing /\ UNCHANGED <<built, unlocked>>

Next ==
    \/ \E p \in Passphrases : \E S \in SUBSET Items : Build(p, S)
    \/ \E p \in Passphrases, b \in DOMAIN built : Unlock(p, b)
    \/ \E b \in DOMAIN built : \E i \in Items : Deliver(b, i)
    \/ Lock \/ Refuse

Spec == Init /\ [][Next]_<<built, unlocked, outcome>>
=============================================================================
