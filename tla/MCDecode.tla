------------------------------ MODULE MCDecode ------------------------------
EXTENDS Decode

MCPrompts == {<<"a", "b", "a", "b">>, <<"a", "b", "b", "a", "b">>}
(* ... and with one so short that no grid point of it is one to resume
   from.                                                                   *)
MCShortPrompts == {<<"a", "b", "a", "b">>, <<"b", "b", "a">>}
MCAnswers == {<<"z">>, <<"b", "a", "z">>, <<"a", "b", "b", "a", "z">>,
              <<"b", "b", "a", "b", "b">>}
MCShapes == {<<0, 1, 1, 3>>}
Server == [pool : BOOLEAN, paired : BOOLEAN, remember : BOOLEAN,
           pipe : BOOLEAN, company : BOOLEAN]
(* Other requests come only where the pool gives them slots, a server without
   a drafter has no history of it to remember, and single steps are tried
   with a pool and alone.                                                   *)
MCConfigs == {c \in Server : /\ c.company => c.pool
                             /\ c.remember => c.paired
                             /\ c.company \/ ~c.pool => c.pipe}
=============================================================================
