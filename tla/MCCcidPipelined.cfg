SPECIFICATION TransportSpec
CONSTANTS
  Requests <- PipelinedRequests
  MaxOutstanding = 2
  SeqModulus = 4
INVARIANT BufferStable
