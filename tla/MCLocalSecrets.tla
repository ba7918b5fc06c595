---------------------------- MODULE MCLocalSecrets ----------------------------
(* Two processes of one deployment: a customer deployment with one object id and *)
(* one that admits a whole domain.  Processes are interchangeable.               *)
EXTENDS LocalSecrets, TLC

CONSTANTS operator, colleague, guest

MCAccounts == {operator, colleague, guest}

MCPolicies ==
    {[ids |-> {operator}, domain |-> {operator, colleague}],
     [ids |-> {}, domain |-> {operator, colleague}]}

Symmetry == Permutations(Processes)
=============================================================================
