------------------------------ MODULE MCWallet ------------------------------
(* Instances of WalletConfig for TLC.                                        *)
EXTENDS WalletConfig, TLC

CONSTANTS phone, laptop, app1, app2

\* Devices, and apps, differ in nothing but their name.
Interchangeable == Permutations(Devices) \cup Permutations(Apps)
=============================================================================
