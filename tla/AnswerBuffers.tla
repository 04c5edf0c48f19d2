---------------------------- MODULE AnswerBuffers ----------------------------
(***************************************************************************)
(* What readAndCompress of the frame service (main.cpp) makes of a picture *)
(* on its way into an answer: the rows that are compressed, and the fixed  *)
(* buffers that the text is written into, for pictures of every size.  A   *)
(* compressed picture is a number of bytes; nothing in the program         *)
(* compares that number with anything.                                     *)
(***************************************************************************)
EXTENDS Base64

b64_size == 1024 * 700         \* left_b64, right_b64
send_json_size == 1024 * 1500

(* What convertToBase64 returns: the characters and the Nul.               *)
convertToBase64(data_length) == Base64encode_len(data_length)

(* readAndCompress writes another Nul behind that.                         *)
PictureFits(data_length) == convertToBase64(data_length) + 1 <= b64_size

(* The literals of strJson, and the digits of its numbers: three doubles,  *)
(* a time of 64 bits and three unsigned integers.                          *)
Literals == 123
MaxDigits == 3 * 317 + 20 + 3 * 10

(* The answer and its length in front.                                     *)
prepareVerifyAnswer(left, right, digits) ==
  4 + Literals + (convertToBase64(left) - 1) + (convertToBase64(right) - 1) + digits

(* Below the rows of a picture savePassage draws a black strip with the    *)
(* camera's name and the time.                                             *)
hblackString == 200
savePassage(fact, IMAGE_HEIGHT, strip) ==
  [k \in 0..(IMAGE_HEIGHT + hblackString - 1) |->
     IF k < IMAGE_HEIGHT THEN fact[k] ELSE strip]

(* The rows that are compressed.                                           *)
jpegProc(image_buffer, IMAGE_HEIGHT) ==
  [next_scanline \in 0..(IMAGE_HEIGHT - 1) |-> image_buffer[next_scanline]]

(* The sextets of a text of base64.c for a number of bytes, without fill.  *)
SextetsOf(len) == (4 * len + 2) \div 3
=============================================================================
