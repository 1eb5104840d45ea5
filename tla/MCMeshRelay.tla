---------------------------- MODULE MCMeshRelay ----------------------------
(* Meshes and traffic for model checking MeshRelay.                        *)
EXTENDS MeshRelay

CONSTANTS n1, n2, n3, a, b, c, w, f, g

Header(sender, type, stamp, to, of) ==
    [sender |-> sender, type |-> type, stamp |-> stamp, to |-> to, of |-> of]

(* Three daemons in a row.                                                 *)
Row == {<<n1, n2>>, <<n2, n1>>, <<n2, n3>>, <<n3, n2>>}

(* A phone next to the first daemon broadcasts a message and sends this    *)
(* daemon a file in two fragments and a receipt of the same millisecond;   *)
(* the second daemon sends the phone a Noise message, which the first, who *)
(* has a session with it, tries too.                                       *)
TextInfo == [id \in {a, b, c, w, f, g} |->
                CASE id = a -> Header(Phone, "message", 1, None, None)
                  [] id = b -> Header(n2, "encrypted", 1, Phone, None)
                  [] id \in {c, w} -> Header(Phone, "encrypted", 2, n1, None)
                  [] OTHER -> Header(Phone, "fragment", 2, n1, w)]
TextHeard == [id \in {a, b, c, w, f, g} |-> {n1}]

Known == {<<n1, n2>>}

(* A message in two fragments, which carry the timestamp of the message.   *)
FileInfo == [id \in {w, f, g} |->
                CASE id = w -> Header(Phone, "message", 1, None, None)
                  [] OTHER -> Header(Phone, "fragment", 1, None, w)]
FileHeard == [id \in {w, f, g} |-> {n1}]

=============================================================================
