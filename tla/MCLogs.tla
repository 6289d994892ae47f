------------------------------- MODULE MCLogs -------------------------------
(* Instances of LogQuery for TLC.                                          *)
EXTENDS LogQuery

CONSTANTS t1, t2, c1, c2, c3

MCClientTenant == [c \in Clients |-> IF c = c3 THEN t2 ELSE t1]
MCReaderTenant == [r \in Readers |-> t1]

(* Entries 3 and 2 share their created_at and are begun in the opposite    *)
(* order of their ids.                                                     *)
MCEntries == <<3, 2>>
MCEntryTenant == <<t1, t1, t1>>
MCCreatedAt == <<1, 2, 2>>
MCKind == <<"info", "info", "error">>
MCFilters == {{"info", "error"}}
=============================================================================
