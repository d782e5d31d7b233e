----------------------------- MODULE GaiaFiles -----------------------------
(***************************************************************************)
(* What putFile uploads and what getFile makes of it: the pure part of       *)
(* packages/core/src/storage/put-file.ts, get-file/get-file.ts,              *)
(* get-file/getters.ts and get-file/sign.ts.                                 *)
(*                                                                          *)
(* Cryptography is symbolic.  A private key and its public key are one       *)
(* member of Keys, an address is the key it is the address of.  A file is    *)
(* its plain data, a cipher object made for a key, as it is or stringified   *)
(* twice ("cipher"), or the JSON envelope of a cipher object with its        *)
(* signature and the signer's key.  A signature file holds the signature of  *)
(* some data and the signer's key.                                           *)
(*                                                                          *)
(* Plain data may have the words in it that getFile looks for, and may be    *)
(* the very text of a file that was encrypted elsewhere.  No string begins   *)
(* with a byte order mark.                                                   *)
(***************************************************************************)
EXTENDS Naturals

CONSTANTS
    Keys,
    NoKey,              \* undefined
    Data,               \* contents of files
    TextData,           \* the contents that are strings; the others are bytes
    EmptyData,          \* the empty string
    OversizedData,      \* more than max_file_upload_size_megabytes
    WordsOf,            \* which of the words that getFile looks for each content has
    Embedded,           \* the encrypted files that contents are the text of
    NoFile

ASSUME GaiaFilesAssumption ==
    /\ NoKey \notin Keys
    /\ TextData \subseteq Data
    /\ EmptyData \subseteq TextData
    /\ OversizedData \subseteq Data

Forms == {"plain", "cipherObject", "cipher", "signedCipher", "signature"}

Files == [form : Forms, data : Data, to : Keys \cup {NoKey}, signer : Keys \cup {NoKey}]

ASSUME NoFileAssumption == NoFile \notin Files

WordsOfForm ==
    [cipherObject |-> {"cipherText", "ephemeralPK"}, cipher |-> {"cipherText", "ephemeralPK"},
     signedCipher |-> {"signature", "publicKey", "cipherText", "ephemeralPK"},
     signature |-> {"signature", "publicKey"}]

ASSUME EmbeddedAssumption ==
    /\ WordsOf \in [Data -> SUBSET {"signature", "publicKey", "cipherText", "ephemeralPK"}]
    /\ DOMAIN Embedded \subseteq Data
    /\ \A data \in DOMAIN Embedded :
         /\ Embedded[data] \in Files /\ Embedded[data].form \in {"cipherObject", "signedCipher"}
         /\ WordsOfForm[Embedded[data].form] \subseteq WordsOf[data]

\* encrypt and sign are undefined, a boolean or a key; the key is a field of its own.
Switch == {"omitted", "false", "true", "key"}

PutOptions == [encrypt : Switch, encryptKey : Keys \cup {NoKey},
               sign : Switch, signKey : Keys \cup {NoKey},
               privateKey : Keys \cup {NoKey}]

GetOptions == [decrypt : Switch, decryptKey : Keys \cup {NoKey},
               verify : BOOLEAN, privateKey : Keys \cup {NoKey}]

Truthy(switch) == switch \in {"true", "key"}

-----------------------------------------------------------------------------
(* putFile, up to its uploads.                                              *)

SignsApart(o) == ~Truthy(o.encrypt) /\ Truthy(o.sign)

\* The key that signs a plain file.
SigningKey(o) == IF o.sign = "key" THEN o.signKey ELSE o.privateKey

\* Whose public key a file is encrypted with.
Recipient(o) == CASE o.encrypt = "key" -> o.encryptKey
                  [] o.encrypt # "key" /\ o.sign = "key" -> o.signKey
                  [] OTHER -> o.privateKey

\* putFile throws before any upload otherwise.  The size of an encrypted file
\* is only checked when a cipherTextEncoding is given, which is not done here.
CanPut(o, data) ==
    /\ ~Truthy(o.encrypt) => data \notin OversizedData
    /\ SignsApart(o) => SigningKey(o) # NoKey
    /\ Truthy(o.encrypt) => Recipient(o) # NoKey

PlainFile(data) == [form |-> "plain", data |-> data, to |-> NoKey, signer |-> NoKey]

\* The contents of the upload to path.  An encrypted file is signed with the
\* private key whenever there is one, whatever the sign option says.
ContentFile(o, data) ==
    IF ~Truthy(o.encrypt)
    THEN PlainFile(data)
    ELSE [form |-> IF o.privateKey # NoKey THEN "signedCipher" ELSE "cipher",
          data |-> data, to |-> Recipient(o), signer |-> o.privateKey]

\* The contents of the upload to path.sig.
SignatureFile(o, data) ==
    [form |-> "signature", data |-> data, to |-> NoKey, signer |-> SigningKey(o)]

-----------------------------------------------------------------------------
(* getFile, on the contents it fetched.                                     *)

\* Which of the words the contents include.
Words(f) == IF f.form = "plain" THEN WordsOf[f.data] ELSE WordsOfForm[f.form]

\* What JSON.parse makes of the contents.
Parsed(f) == IF f.form = "plain" /\ f.data \in DOMAIN Embedded THEN Embedded[f.data] ELSE f

\* Errors, next to Data, of an operation.
Failures == {"ExpectedString", "NotEncrypted", "NoPrivateKey", "FailedDecryption",
             "SignatureVerification", "NoEnvelope", "Unreachable"}

\* What an operation may end with: "done" for a putFile or deleteFile that resolved,
\* "failed" when a reply rejected it, "none" while it has not ended.
Outcomes == Data \cup Failures \cup {"none", "done", "failed", "TooLargeOrNoKey"}

ASSUME DataAssumption ==
    Data \cap (Failures \cup {"none", "done", "failed", "TooLargeOrNoKey"}) = {}

DecryptionKey(o) == IF o.decrypt = "key" THEN o.decryptKey ELSE o.privateKey

\* decryptContent, of a cipher object.
Decrypt(object, key) == IF object.to = key THEN object.data ELSE "FailedDecryption"

\* decryptContent, of contents that have no signature in them.  Of a cipher object that was
\* stringified twice JSON.parse makes a string, which has no ephemeralPK.
Encrypted(f, key) ==
    IF Parsed(f).form = "cipherObject" THEN Decrypt(Parsed(f), key) ELSE "FailedDecryption"

\* An envelope that anybody may have signed.
SignedEncryptedAnySigner(f, key, owner) ==
    IF Parsed(f).form = "signedCipher" THEN Decrypt(Parsed(f), key) ELSE "NoEnvelope"

\* handleSignedEncryptedContents.  What is no envelope has no publicKey to make an address of,
\* or is no JSON.
SignedEncrypted(f, key, owner) ==
    IF Parsed(f).form # "signedCipher" THEN "NoEnvelope"
    ELSE IF Parsed(f).signer # owner THEN "SignatureVerification"
    ELSE Decrypt(Parsed(f), key)

\* getFile after getFileContents; owner is the key of the bucket's address.  Its guesses at what
\* the contents are overrule its options.
GetOutcome(o, f, owner) ==
    LET asksDecrypt == o.decrypt # "false"
        verify == o.verify \/ {"signature", "publicKey"} \subseteq Words(f)
        decrypt == asksDecrypt \/ {"cipherText", "ephemeralPK"} \subseteq Words(f)
        key == DecryptionKey(o)
    IN  IF ~asksDecrypt /\ f.form = "plain" /\ f.data \notin TextData THEN "ExpectedString"
        ELSE IF ~verify /\ ~decrypt THEN f.data
        ELSE IF decrypt /\ "cipherText" \notin Words(f) THEN "NotEncrypted"
        ELSE IF key = NoKey THEN "NoPrivateKey"
        ELSE IF ~verify THEN Encrypted(f, key)
        ELSE IF decrypt THEN SignedEncrypted(f, key, owner)
        ELSE "Unreachable"

\* A verification that does not ask who signed.
SignedOutcomeAnySigner(f, sig, owner) ==
    IF f.form = "plain" /\ sig.data = f.data THEN f.data ELSE "SignatureVerification"

\* getFileSignedUnencrypted, once both files arrived: the empty string is returned before its
\* signature is looked at.
SignedOutcome(f, sig, owner) ==
    IF f.form = "plain" /\ (f.data \in EmptyData \/ (sig.signer = owner /\ sig.data = f.data))
    THEN f.data
    ELSE "SignatureVerification"
=============================================================================
