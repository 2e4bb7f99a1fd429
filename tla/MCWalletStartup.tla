---------------------------- MODULE MCWalletStartup ----------------------------
(* A small instance of WalletStartup: a key for each wallet made and each key    *)
(* changed, who may write what as on a new network.                             *)
EXTENDS WalletStartup

TwoWallets == {Steward, Tayo}
SomeKeys == 0..(2 + MaxHelp)
DomainTypes == {"NYM", "SCHEMA", "CRED_DEF"}
DefaultRules ==
  [type \in Types |-> IF type = "NYM" THEN {"TRUSTEE", "STEWARD"}
                      ELSE IF type \in DomainTypes THEN Roles ELSE {"TRUSTEE"}]
==============================================================================
