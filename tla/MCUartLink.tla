---------------------------- MODULE MCUartLink ----------------------------
(***************************************************************************)
(* UartLink on small models: words of two bits.                            *)
(***************************************************************************)
EXTENDS UartLink

F(half, data, parity, stops) ==
    [half |-> half, data |-> data, parity |-> parity, stops |-> stops]

\* Two formats, one twice as fast as the other.
MCFormats ==
    {F(1, 1, "even", 1), F(2, 1, "none", 1)}
W(a, b) == <<a, b>>
MCMessages == {<<W(TRUE, FALSE)>>, <<W(FALSE, TRUE), W(TRUE, TRUE)>>}
=============================================================================
