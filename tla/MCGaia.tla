------------------------------- MODULE MCGaia -------------------------------
(* Instances of GaiaHub for TLC: the owner and a friend share a bucket.      *)
EXTENDS GaiaHub, TLC

CONSTANTS owner, friend, d1, d2, big, empty, note, copy, o1, o2, o3

\* d2 has a signature's words in it, the note those of a cipher text; the copy is the text of a cipher
\* object that has d2 encrypted for the owner.
SomeWords ==
    [d \in Data |-> CASE d = d2 -> {"signature", "publicKey"}
                      [] d = note -> {"cipherText", "ephemeralPK"}
                      [] d = copy -> {"cipherText", "ephemeralPK"}
                      [] OTHER -> {}]

Copied == copy :> [form |-> "cipherObject", data |-> d2, to |-> owner, signer |-> NoKey]

Put(d, encrypt, sign, key) ==
    [kind |-> "put",
     put |-> [data |-> d,
              options |-> [encrypt |-> encrypt, encryptKey |-> NoKey, sign |-> sign,
                           signKey |-> NoKey, privateKey |-> key]]]

Get(decrypt, verify, key) ==
    [kind |-> "get",
     options |-> [decrypt |-> decrypt, decryptKey |-> NoKey, verify |-> verify,
                  privateKey |-> key]]

Delete(wasSigned) == [kind |-> "delete", wasSigned |-> wasSigned]

\* A put that the friend encrypts for the owner.
PutForOwner(d) ==
    [kind |-> "put",
     put |-> [data |-> d,
              options |-> [encrypt |-> "key", encryptKey |-> owner, sign |-> "omitted",
                           signKey |-> NoKey, privateKey |-> friend]]]

\* A signed put of the owner; a signed put of the friend, an encrypted put of either, one in
\* plain that is empty, looks like an encrypted one or is the text of one, one that is too large
\* or a delete; a read with verification, with decryption, with both or with neither.
WriteWriteRead ==
    o1 :> {Put(d1, "false", "true", owner)} @@
    o2 :> {Put(d2, "false", "true", friend), Put(empty, "false", "false", friend),
           Put(d2, "true", "false", owner), PutForOwner(d2),
           Put(note, "false", "false", friend), Put(copy, "false", "false", friend),
           Put(big, "false", "false", owner), Delete(TRUE)} @@
    o3 :> {Get("false", TRUE, NoKey), Get("true", FALSE, owner), Get("true", TRUE, owner),
           Get("false", FALSE, owner)}

\* A signed put and an operation of each other kind next to it, with one put that does
\* not say whether to encrypt and one that has no key to encrypt with.
WriteAnother ==
    o1 :> {Put(d1, "false", "true", owner)} @@
    o2 :> {Put(d2, "false", "true", friend), Put(d2, "true", "false", owner),
           Put(big, "false", "false", owner), Delete(TRUE),
           Get("false", TRUE, NoKey), Get("true", FALSE, owner),
           Put(d1, "omitted", "false", owner), Put(d2, "true", "false", NoKey)}
=============================================================================
