----------------------------- MODULE MCIngestion -----------------------------
(* Small instances of Ingestion: every source may hold every document with   *)
(* every attachment name but the one only upload rows carry.                 *)
EXTENDS Ingestion

AllKeys == [src : Source, doc : Doc, name : Name]
AllFiles == {f \in AllKeys : f.name # OriginalName}

==============================================================================
