------------------------------ MODULE MCShell ------------------------------
(* The instance of Shell that TLC checks: a boot volume and a second disk, *)
(* and the arguments below.                                                *)
EXTENDS Shell

Boot == <<[name |-> "BOOT", drive |-> "0"], [name |-> "DISK0", drive |-> "1"]>>

Typed == {<<"/">>, <<"..">>, <<"d">>, <<"d", "/">>, <<"d", "/", "f">>, <<"/", "f">>,
          <<"BOOT">>, <<"BOOT", ":", "/">>, <<"BOOT", ":", "/", "d">>,
          <<"0", ":", "/">>, <<"1", ":", "/", "d">>}
=============================================================================
