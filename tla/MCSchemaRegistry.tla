--------------------------- MODULE MCSchemaRegistry ---------------------------
(* Instances of SchemaRegistry for TLC. *)
EXTENDS SchemaRegistry

CONSTANTS x, y, z

Doc(id, refs, valid) == [id |-> id, dialect |-> NoUri, refs |-> refs, valid |-> valid]

\* Documents without $id that refer to each other, one answer per URI: x refers
\* to y and z, y to itself and back to x, and z is missing.
XtoYZ == Doc(NoUri, <<y, z>>, TRUE)
YtoYX == Doc(NoUri, <<y, x>>, TRUE)
Broken == Doc(NoUri, <<x>>, FALSE)
NeedsY == [Doc(NoUri, <<x>>, TRUE) EXCEPT !.dialect = y]
LinkDocs == {XtoYZ, YtoYX, Broken, NeedsY, Doc(NoUri, <<>>, TRUE)}
LinkAnswers == [u \in {x, y, z} |-> IF u = x THEN {XtoYZ} ELSE IF u = y THEN {YtoYX} ELSE {NoDoc}]

\* Documents with $id, under their own URI and others, and a fetcher that may
\* fail and that may call the registry.
IdX == [Doc(x, <<y>>, TRUE) EXCEPT !.dialect = y]
IdY == Doc(y, <<>>, TRUE)
BrokenY == Doc(y, <<>>, FALSE)
NestDocs == {IdX, IdY, BrokenY}
NestAnswers == [u \in {x, y} |-> IF u = x THEN {NoDoc, IdX} ELSE {NoDoc, IdY, BrokenY}]
=============================================================================
