--------------------------- MODULE MCCarRegistration ---------------------------
(* A small instance of CarRegistration: an issuer may write its own things.     *)
EXTENDS CarRegistration, TLC

ServiceRules ==
  [type \in {"NYM", "SCHEMA", "CRED_DEF", "AUTH_RULE", "POOL_CONFIG", "TXN_AUTHR_AGRMT",
             "TXN_AUTHR_AGRMT_DISABLE", "TXN_AUTHR_AGRMT_AML"} |->
     IF type \in {"SCHEMA", "CRED_DEF"} THEN {"TRUST_ANCHOR"} ELSE {}]
==============================================================================
