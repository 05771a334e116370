----------------------- MODULE MCWabbajackStaging -----------------------
(***************************************************************************)
(* An instance of WabbajackStaging: a list and its update over a plugin    *)
(* and a patched texture of one archive, a part of a BSA of another, a file *)
(* of the list and the BSA.                                                *)
(***************************************************************************)
EXTENDS WabbajackStaging

CONSTANTS plugin, texture, part, ini, mesh, bsa

MCTwo == {1, 2}
MCPlain == {plugin, part}
MCPatched == {texture}
MCInlineTwo == {ini, mesh}
MCBsa == {bsa}
MCParts == [b \in {bsa} |-> {part}]
MCFrom == << [o \in Output |->
                CASE o \in {plugin, texture} -> "a1" [] o = part -> "a2"
                  [] o = ini -> "data1" [] o = mesh -> "data0" [] o = bsa -> "bsa1"],
             [o \in Output |->
                CASE o = plugin -> "b1" [] o = texture -> "a1" [] o = part -> "a2"
                  [] o = ini -> "data2" [] o = mesh -> "data3" [] o = bsa -> "bsa2"] >>
MCEligibleTwo == {texture, bsa, mesh}
MCEvery == {{}, {"force"}, {"reset"}, {"force", "lenient"}, {"noDeploy"}}
=========================================================================
