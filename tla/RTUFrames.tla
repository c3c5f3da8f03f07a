------------------------------ MODULE RTUFrames ------------------------------
(***************************************************************************)
(* RTU frames: with the table-driven CRC-16 of crc.go, and as the packager *)
(* of the handler makes them, with the bitwise CRC-16 of                   *)
(* enhancement-utils.go.                                                   *)
(***************************************************************************)
EXTENDS WireFrames

crcHighBytes ==
    <<
      \h00, \hC1, \h81, \h40, \h01, \hC0, \h80, \h41, \h01, \hC0, \h80, \h41, \h00, \hC1, \h81, \h40,
      \h01, \hC0, \h80, \h41, \h00, \hC1, \h81, \h40, \h00, \hC1, \h81, \h40, \h01, \hC0, \h80, \h41,
      \h01, \hC0, \h80, \h41, \h00, \hC1, \h81, \h40, \h00, \hC1, \h81, \h40, \h01, \hC0, \h80, \h41,
      \h00, \hC1, \h81, \h40, \h01, \hC0, \h80, \h41, \h01, \hC0, \h80, \h41, \h00, \hC1, \h81, \h40,
      \h01, \hC0, \h80, \h41, \h00, \hC1, \h81, \h40, \h00, \hC1, \h81, \h40, \h01, \hC0, \h80, \h41,
      \h00, \hC1, \h81, \h40, \h01, \hC0, \h80, \h41, \h01, \hC0, \h80, \h41, \h00, \hC1, \h81, \h40,
      \h00, \hC1, \h81, \h40, \h01, \hC0, \h80, \h41, \h01, \hC0, \h80, \h41, \h00, \hC1, \h81, \h40,
      \h01, \hC0, \h80, \h41, \h00, \hC1, \h81, \h40, \h00, \hC1, \h81, \h40, \h01, \hC0, \h80, \h41,
      \h01, \hC0, \h80, \h41, \h00, \hC1, \h81, \h40, \h00, \hC1, \h81, \h40, \h01, \hC0, \h80, \h41,
      \h00, \hC1, \h81, \h40, \h01, \hC0, \h80, \h41, \h01, \hC0, \h80, \h41, \h00, \hC1, \h81, \h40,
      \h00, \hC1, \h81, \h40, \h01, \hC0, \h80, \h41, \h01, \hC0, \h80, \h41, \h00, \hC1, \h81, \h40,
      \h01, \hC0, \h80, \h41, \h00, \hC1, \h81, \h40, \h00, \hC1, \h81, \h40, \h01, \hC0, \h80, \h41,
      \h00, \hC1, \h81, \h40, \h01, \hC0, \h80, \h41, \h01, \hC0, \h80, \h41, \h00, \hC1, \h81, \h40,
      \h01, \hC0, \h80, \h41, \h00, \hC1, \h81, \h40, \h00, \hC1, \h81, \h40, \h01, \hC0, \h80, \h41,
      \h01, \hC0, \h80, \h41, \h00, \hC1, \h81, \h40, \h00, \hC1, \h81, \h40, \h01, \hC0, \h80, \h41,
      \h00, \hC1, \h81, \h40, \h01, \hC0, \h80, \h41, \h01, \hC0, \h80, \h41, \h00, \hC1, \h81, \h40>>

crcLowBytes ==
    <<
      \h00, \hC0, \hC1, \h01, \hC3, \h03, \h02, \hC2, \hC6, \h06, \h07, \hC7, \h05, \hC5, \hC4, \h04,
      \hCC, \h0C, \h0D, \hCD, \h0F, \hCF, \hCE, \h0E, \h0A, \hCA, \hCB, \h0B, \hC9, \h09, \h08, \hC8,
      \hD8, \h18, \h19, \hD9, \h1B, \hDB, \hDA, \h1A, \h1E, \hDE, \hDF, \h1F, \hDD, \h1D, \h1C, \hDC,
      \h14, \hD4, \hD5, \h15, \hD7, \h17, \h16, \hD6, \hD2, \h12, \h13, \hD3, \h11, \hD1, \hD0, \h10,
      \hF0, \h30, \h31, \hF1, \h33, \hF3, \hF2, \h32, \h36, \hF6, \hF7, \h37, \hF5, \h35, \h34, \hF4,
      \h3C, \hFC, \hFD, \h3D, \hFF, \h3F, \h3E, \hFE, \hFA, \h3A, \h3B, \hFB, \h39, \hF9, \hF8, \h38,
      \h28, \hE8, \hE9, \h29, \hEB, \h2B, \h2A, \hEA, \hEE, \h2E, \h2F, \hEF, \h2D, \hED, \hEC, \h2C,
      \hE4, \h24, \h25, \hE5, \h27, \hE7, \hE6, \h26, \h22, \hE2, \hE3, \h23, \hE1, \h21, \h20, \hE0,
      \hA0, \h60, \h61, \hA1, \h63, \hA3, \hA2, \h62, \h66, \hA6, \hA7, \h67, \hA5, \h65, \h64, \hA4,
      \h6C, \hAC, \hAD, \h6D, \hAF, \h6F, \h6E, \hAE, \hAA, \h6A, \h6B, \hAB, \h69, \hA9, \hA8, \h68,
      \h78, \hB8, \hB9, \h79, \hBB, \h7B, \h7A, \hBA, \hBE, \h7E, \h7F, \hBF, \h7D, \hBD, \hBC, \h7C,
      \hB4, \h74, \h75, \hB5, \h77, \hB7, \hB6, \h76, \h72, \hB2, \hB3, \h73, \hB1, \h71, \h70, \hB0,
      \h50, \h90, \h91, \h51, \h93, \h53, \h52, \h92, \h96, \h56, \h57, \h97, \h55, \h95, \h94, \h54,
      \h9C, \h5C, \h5D, \h9D, \h5F, \h9F, \h9E, \h5E, \h5A, \h9A, \h9B, \h5B, \h99, \h59, \h58, \h98,
      \h88, \h48, \h49, \h89, \h4B, \h8B, \h8A, \h4A, \h4E, \h8E, \h8F, \h4F, \h8D, \h4D, \h4C, \h8C,
      \h44, \h84, \h85, \h45, \h87, \h47, \h46, \h86, \h82, \h42, \h43, \h83, \h41, \h81, \h80, \h40>>

\* Exclusive or, of bytes and of 16-bit numbers.
ByteXor ==
    [m \in Byte |-> [n \in Byte |->
        LET bit(i) == i * (((m \div i) + (n \div i)) % 2)
        IN bit(1) + bit(2) + bit(4) + bit(8) + bit(16) + bit(32) + bit(64) + bit(128)]]
Xor(m, n) == 256 * ByteXor[m \div 256][n \div 256] + ByteXor[m % 256][n % 256]

\* crc.pushBytes and crc.value.
\* (Mutant: the tables are exchanged.)
PushByteExchanged(crc, b) ==
    LET idx == ByteXor[crc.low][b] + 1
    IN [low |-> ByteXor[crc.high][crcLowBytes[idx]], high |-> crcHighBytes[idx]]
PushByte(crc, b) ==
    LET idx == ByteXor[crc.low][b] + 1
    IN [low |-> ByteXor[crc.high][crcHighBytes[idx]], high |-> crcLowBytes[idx]]
TableCRC(bs) ==
    LET crc[n \in 0..Len(bs)] ==
          IF n = 0 THEN [low |-> 255, high |-> 255] ELSE PushByte(crc[n - 1], bs[n])
    IN 256 * crc[Len(bs)].high + crc[Len(bs)].low

\* CRC16: each byte is added and its eight bits are shifted out; the result has
\* its bytes swapped.
Shift == [crc \in Uint16 |-> IF crc % 2 = 1 THEN Xor(crc \div 2, 40961) ELSE crc \div 2]
Shifted(crc) == Shift[Shift[Shift[Shift[Shift[Shift[Shift[Shift[crc]]]]]]]]
CRC16(bs) ==
    LET crc[n \in 0..Len(bs)] == IF n = 0 THEN 65535 ELSE Shifted(Xor(crc[n - 1], bs[n]))
        sum == crc[Len(bs)]
    IN 256 * (sum % 256) + (sum \div 256)

-----------------------------------------------------------------------------
RTUEncode(a) ==
    LET crc == TableCRC(Body(a)) IN Body(a) \o <<crc % 256, crc \div 256>>
Pack(a) ==
    LET crc == CRC16(Body(a)) IN Body(a) \o <<crc \div 256, crc % 256>>

\* Below function code 5 the byte count says where the frame ends.
RealLength(f) == IF f[2] < 5 THEN f[3] + 5 ELSE Len(f)
RTUIntact(f) ==
    LET n == RealLength(f) IN
    n <= Len(f) /\ TableCRC(SubSeq(f, 1, n - 2)) = 256 * f[n] + f[n - 1]
RTUDecode(f) == Content(SubSeq(f, 1, RealLength(f) - 2))
===============================================================================
