--------------------------- MODULE MCWebsocketAll ---------------------------
(***************************************************************************)
(* WebsocketHandler, and WebsocketRoundTrip at the lengths around which    *)
(* the encoding changes.  A behaviour chooses one of them, `part', and     *)
(* only that one moves.                                                    *)
(***************************************************************************)
EXTENDS MCWebsocket

CONSTANT Lengths
VARIABLES data, frame, stale, parser, fed, out, refused

VARIABLE part

TripKeys == {NoKey, <<0, 255, 1, 128>>, <<7, 0, 0, 0>>}

Trip == INSTANCE WebsocketRoundTrip WITH parser_ <- parser, Keys <- TripKeys

tripVars == <<data, frame, stale, parser, fed, out, refused>>
allVars == <<vars, tripVars, part>>

\* The part that does not move has one state.
TripIdle ==
  /\ data = <<>> /\ frame = 0 /\ stale = NoKey /\ parser = NewParser(NoKey)
  /\ fed = 0 /\ out = <<>> /\ refused = FALSE

HandlerIdle ==
  /\ script = CHOOSE s \in Scripts : TRUE
  /\ read = 0 /\ buf = <<>> /\ parser_ = NewParser(NoKey) /\ codec = NewCodec
  /\ conn = "closed" /\ pc = "poll" /\ delivered = <<>> /\ failed = FALSE

AllInit ==
  \/ part = "handler" /\ Init /\ TripIdle
  \/ part = "trip" /\ Trip!Init /\ HandlerIdle

AllNext ==
  \/ part = "handler" /\ Next /\ UNCHANGED <<part, tripVars>>
  \/ part = "trip" /\ Trip!Next /\ UNCHANGED <<part, vars>>

AllSpec == AllInit /\ [][AllNext]_allVars /\ WF_vars(part = "handler" /\ LoopStep)

-----------------------------------------------------------------------------
(* What the encoder writes the parser reads back, and masking is undone:   *)
(* the properties of WebsocketRoundTrip.                                   *)
RoundTrip == part = "trip" => Trip!RoundTrip /\ Trip!Unmasks
=============================================================================
