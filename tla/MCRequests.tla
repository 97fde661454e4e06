----------------------------- MODULE MCRequests -----------------------------
(* A small instance of Requests.                                           *)
EXTENDS Requests, TLC

CONSTANTS c1, c2, ec1, s1, h1, h2

(* One that asks for meters, one with parameters in its URL, the one that  *)
(* answers twice, and a resolver.                                          *)
MCHandlers == {queryRawData, getLoadCurveReportV2, lastRecordDate, SingleUpload}

=============================================================================
