----------------------------- MODULE MCKeyStore -----------------------------
(***************************************************************************)
(* KeyStore with the web process and the standby, a backup in the data     *)
(* directory, read first, and one in the configuration directory.          *)
(***************************************************************************)
EXTENDS KeyStore, TLC

CONSTANTS dataDir, configDir

MCBefore == [a \in Places |-> IF a = dataDir THEN {} ELSE {dataDir}]

MCSymmetry == Permutations(Keys)
=============================================================================
