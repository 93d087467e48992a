--------------------------- MODULE IrisHciOpcodes ---------------------------
(***************************************************************************)
(* The opcode tables of the Iris FM radio HCI driver                      *)
(* (drivers/media/radio/radio-iris.c).                                     *)
(*                                                                         *)
(* An HCI opcode packs a command group (OGF) and a command in that group   *)
(* (OCF).  The numeric values live in media/radio-iris.h, outside this     *)
(* tree, so an opcode is the pair of names <<ogf, ocf>>: opcodes with      *)
(* different names are taken to be different numbers.  The                *)
(* hci_*_cmd_op_pack(ocf) macros used by hci_cmd_complete_event pack the   *)
(* group their name says.                                                  *)
(*                                                                         *)
(* ReqOpcode is what each *_req function sends; CompleteHandled is the     *)
(* set of opcodes hci_cmd_complete_event dispatches to a handler that      *)
(* completes the request.  The controller echoes the opcode of the        *)
(* command in its Command Complete event.                                 *)
(***************************************************************************)
EXTENDS TLC

RECV   == "RECV_CTRL"       \* HCI_OGF_FM_RECV_CTRL_CMD_REQ
COMMON == "COMMON_CTRL"     \* HCI_OGF_FM_COMMON_CTRL_CMD_REQ
STATUS == "STATUS_PARAM"    \* hci_status_param_op_pack
DIAG   == "DIAGNOSTIC"      \* hci_diagnostic_cmd_op_pack

(* hci_opcode_pack(ogf, ocf) *)
Op(ogf, ocf) == <<ogf, ocf>>

(* The *_req functions from hci_fm_enable_recv_req to                     *)
(* hci_fm_get_af_list_req: the opcode each passes to radio_hci_send_cmd.  *)
ReqOpcodeA ==
  [ enable_recv         |-> Op(RECV, "ENABLE_RECV_REQ"),
    disable_recv        |-> Op(RECV, "DISABLE_RECV_REQ"),
    get_recv_conf       |-> Op(RECV, "GET_RECV_CONF_REQ"),
    set_recv_conf       |-> Op(RECV, "SET_RECV_CONF_REQ"),
    get_station_param   |-> Op(RECV, "GET_STATION_PARAM_REQ"),
    set_mute_mode       |-> Op(RECV, "SET_MUTE_MODE_REQ"),
    set_stereo_mode     |-> Op(RECV, "SET_STEREO_MODE_REQ"),
    set_antenna         |-> Op(COMMON, "SET_ANTENNA"),
    set_sig_threshold   |-> Op(COMMON, "SET_SIGNAL_THRESHOLD"),
    get_sig_threshold   |-> Op(COMMON, "GET_SIGNAL_THRESHOLD"),
    get_program_service |-> Op(COMMON, "GET_PROGRAM_SERVICE_REQ"),
    get_radio_text      |-> Op(COMMON, "GET_RADIO_TEXT_REQ"),
    get_af_list         |-> Op(COMMON, "GET_AF_LIST_REQ") ]

(* The search requests, hci_fm_search_stations_req to                    *)
(* hci_fm_cancel_search_req.                                              *)
ReqOpcodeS ==
  [ search_stations     |-> Op(RECV, "TUNE_STATION_REQ"),
    srch_rds_stations   |-> Op(RECV, "SEARCH_RDS_STATIONS"),
    srch_station_list   |-> Op(RECV, "SEARCH_STATIONS_LIST"),
    cancel_search       |-> Op(COMMON, "CANCEL_SEARCH") ]

(* The *_req functions from hci_fm_rds_grp_req to                         *)
(* hci_fm_get_station_dbg_param_req.                                      *)
ReqOpcodeB ==
  [ rds_grp               |-> Op(RECV, "RDS_GRP"),
    rds_grp_process       |-> Op(COMMON, "RDS_GRP_PROCESS"),
    tune_station          |-> Op(COMMON, "TUNE_STATION_REQ"),
    def_data_read         |-> Op(RECV, "DEFAULT_DATA_READ"),
    def_data_write        |-> Op(RECV, "DEFAULT_DATA_WRITE"),
    reset                 |-> Op(COMMON, "RESET"),
    get_feature_lists     |-> Op(COMMON, "GET_FEATURE_LIST"),
    do_calibration        |-> Op(COMMON, "DO_CALIBRATION"),
    read_grp_counters     |-> Op(COMMON, "READ_GRP_COUNTERS"),
    peek_data             |-> Op(RECV, "PEEK_DATA"),
    poke_data             |-> Op(RECV, "POKE_DATA"),
    ssbi_peek_reg         |-> Op(RECV, "SSBI_PEEK_REG"),
    ssbi_poke_reg         |-> Op(RECV, "SSBI_POKE_REG"),
    get_station_dbg_param |-> Op(COMMON, "STATION_DBG_PARAM") ]

(* Every request function and its opcode. *)
ReqOpcode == ReqOpcodeA @@ ReqOpcodeS @@ ReqOpcodeB

Requests == DOMAIN ReqOpcode

(* The cases of the switch of hci_cmd_complete_event.  Every handler it   *)
(* calls (hci_cc_rsp, hci_cc_conf_rsp, hci_cc_station_rsp, ...) returns   *)
(* without completing the request when the status byte is nonzero, and   *)
(* calls radio_hci_req_complete otherwise; an opcode of no case is only   *)
(* logged.                                                               *)
CompleteHandled ==
  { Op(RECV, "ENABLE_RECV_REQ"), Op(RECV, "GET_RECV_CONF_REQ"),
    Op(RECV, "DISABLE_RECV_REQ"),
    Op(RECV, "SET_RECV_CONF_REQ"), Op(RECV, "SET_MUTE_MODE_REQ"),
    Op(RECV, "SET_STEREO_MODE_REQ"), Op(RECV, "SET_ANTENNA"),
    Op(RECV, "SET_SIGNAL_THRESHOLD"), Op(RECV, "CANCEL_SEARCH"),
    Op(RECV, "RDS_GRP"), Op(RECV, "RDS_GRP_PROCESS"),
    Op(RECV, "EN_WAN_AVD_CTRL"), Op(RECV, "EN_NOTCH_CTRL"),
    Op(COMMON, "DEFAULT_DATA_WRITE"), Op(COMMON, "RESET"),
    Op(STATUS, "READ_GRP_COUNTERS"), Op(DIAG, "POKE_DATA"),
    Op(DIAG, "SSBI_PEEK_REG"), Op(DIAG, "SSBI_POKE_REG"),
    Op(RECV, "GET_SIGNAL_THRESHOLD"), Op(RECV, "GET_STATION_PARAM_REQ"),
    Op(RECV, "GET_PROGRAM_SERVICE_REQ"), Op(RECV, "GET_RADIO_TEXT_REQ"),
    Op(RECV, "GET_AF_LIST_REQ"), Op(COMMON, "DEFAULT_DATA_READ"),
    Op(DIAG, "PEEK_DATA"), Op(COMMON, "GET_FEATURE_LIST"),
    Op(DIAG, "STATION_DBG_PARAM") }

(* hci_cmd(): the request function each HCI_FM_*_CMD runs. *)
HciCmd ==
  [ ENABLE_RECV        |-> "enable_recv",
    DISABLE_RECV       |-> "disable_recv",
    GET_RECV_CONF      |-> "get_recv_conf",
    GET_STATION_PARAM  |-> "get_station_param",
    GET_SIGNAL_TH      |-> "get_sig_threshold",
    GET_PROGRAM_SERVICE |-> "get_program_service",
    GET_RADIO_TEXT     |-> "get_radio_text",
    GET_AF_LIST        |-> "get_af_list",
    CANCEL_SEARCH      |-> "cancel_search",
    RESET              |-> "reset",
    GET_FEATURES       |-> "get_feature_lists",
    STATION_DBG_PARAM  |-> "get_station_dbg_param" ]

(* The hci_* wrappers from hci_set_fm_recv_conf to hci_fm_search_station_list, *)
(* and the request function each passes to radio_hci_request after it   *)
(* has copy_from_user'd its argument.                                    *)
WrapperA ==
  [ set_fm_recv_conf        |-> "set_recv_conf",
    fm_tune_station         |-> "tune_station",
    set_fm_mute_mode        |-> "set_mute_mode",
    set_fm_stereo_mode      |-> "set_stereo_mode",
    fm_set_antenna          |-> "set_antenna",
    fm_set_signal_threshold |-> "set_sig_threshold",
    fm_search_stations      |-> "search_stations",
    fm_search_rds_stations  |-> "srch_rds_stations",
    fm_search_station_list  |-> "srch_station_list" ]

(* The wrappers from hci_fm_rds_grp to hci_ssbi_poke_reg. *)
WrapperB ==
  [ fm_rds_grp              |-> "rds_grp",
    fm_rds_grps_process     |-> "rds_grp_process",
    def_data_read           |-> "def_data_read",
    def_data_write          |-> "def_data_write",
    fm_do_calibration       |-> "do_calibration",
    read_grp_counters       |-> "read_grp_counters",
    peek_data               |-> "peek_data",
    poke_data               |-> "poke_data",
    ssbi_peek_reg           |-> "ssbi_peek_reg",
    ssbi_poke_reg           |-> "ssbi_poke_reg" ]

(* The request functions a handler reaches only through a wrapper (the   *)
(* others it runs through hci_cmd, which copies nothing).                *)
ViaWrapper == {(WrapperA @@ WrapperB)[w] : w \in DOMAIN (WrapperA @@ WrapperB)}

(* radio_hci_err(): the errno for a status code; 0 is success. *)
RadioHciErr(code) ==
  CASE code = 0    -> "OK"         \* returns 0
    [] code = 1    -> "EBADRQC"
    [] code = 2    -> "ENOTCONN"
    [] code = 3    -> "EIO"
    [] code = 7    -> "ENOMEM"
    [] code = 12   -> "EBUSY"
    [] code = 17   -> "EOPNOTSUPP"
    [] code = 18   -> "EINVAL"
    [] OTHER       -> "ENOSYS"
=============================================================================
