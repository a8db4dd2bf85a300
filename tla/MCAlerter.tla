----------------------------- MODULE MCAlerter -----------------------------
(***************************************************************************)
(* Instances of Alerter for TLC.  A filing e1 and an article e2 are        *)
(* delivered, as d1 and d2.  Earlier runs stored them as c1 and c2: the    *)
(* filing when the CIK table had failed to load, so without tickers, the   *)
(* article with another ticker and another text.  Strategy s1 takes        *)
(* articles only, s2 filings and articles about ibm or sap.  A search      *)
(* returns one result, for which c2 competes with d1.  Scores are even, as *)
(* float32 values are some of the float64 ones, and the threshold lies     *)
(* between two of them.                                                    *)
(***************************************************************************)
EXTENDS Alerter

CONSTANTS c1, c2, d1, d2, e1, e2, s1, s2, news, edgar, ibm, sap, kuka

MCEventOf == [c \in Copies |-> IF c \in {c1, d1} THEN e1 ELSE e2]
MCArticle == [c \in Copies |->
                CASE c = c1 -> [source |-> edgar, tickers |-> <<>>]
                  [] c = d1 -> [source |-> edgar, tickers |-> <<kuka, ibm>>]
                  [] c = c2 -> [source |-> news, tickers |-> <<ibm>>]
                  [] OTHER  -> [source |-> news, tickers |-> <<kuka>>]]
MCWants == [s \in Strategies |->
              IF s = s1 THEN [source |-> <<news>>, tickers |-> <<>>]
                        ELSE [source |-> <<edgar, news>>, tickers |-> <<ibm, sap>>]]
MCScore == [c \in Copies |-> [s \in Strategies |->
              IF s = s1 /\ c = c2 THEN 2 ELSE 4]]
MCThreshold == [s \in Strategies |-> 3]

=============================================================================
